---- MODULE Spec2Model ----
(***************************************************************************)
(* State-machine model of the connect-session middleware (index.js), the   *)
(* in-memory reference store (session/memory.js), the store base class     *)
(* (session/store.js) and the cookie metadata (session/cookie.js).         *)
(*                                                                         *)
(* JavaScript is single threaded: every action below is one run-to-        *)
(* completion turn of the event loop (the middleware entry, a store        *)
(* callback, one statement of the request handler, a setImmediate job).    *)
(***************************************************************************)
EXTENDS Integers, Sequences, FiniteSets, TLC

\* ---------------------------------------------------------------- bounds
\* requests the server receives before the run is cut off
MaxReqs == 2
\* session content is one counter in 0..MaxData, 0 being the empty session
MaxData == 1
\* calls of res.end one request makes
MaxCalls == 2
\* the configured cookie max-age, when there is one
MaxAge == 1
\* calls of session.save and session.reload a handler makes in one request
MaxHandlerOps == 2
\* requests the server receives when two of them may be in flight at once
MaxShared == 3
\* how far the clock advances
MaxTime == 2
\* how far the clock advances between two reads inside one cookie setter
MaxLatency == 1

\* request slots: a slot is taken by a new request once its request is over
Reqs == {"a", "b"}
Ids == 1..MaxReqs
\* identifiers: 0 is one a client made up; a request draws one when it
\* generates a session and one when it regenerates it
IdSpace == 0..(2 * MaxReqs)
Data == 0..MaxData

\* ------------------------------------------------------ null-like values
\* undefined / null / false where an identifier or a hash is expected
NoId == -1
\* req.sessionID replaced by something that is not a string
BogusId == -2
\* undefined hash (savedHash before any save)
NoHash == -1
\* null expiration, null max-age
NullT == -1
\* an invalid Date (new Date(NaN)) and the max-age NaN read back from it
Invalid == -2
\* req.session undefined or null, and an absent store entry
Null == [null |-> TRUE]
\* the chunk argument of res.end() when it is null or undefined
NullChunk == <<-1>>

\* ----------------------------------------------------------- cookie codec
\* cookie-signature's tag over val under secret: a function of both
Sign(val, secret) == <<val, secret>>

\* a raw cookie value: "s:" prefix or not, the value, the tag after the dot
Raw(prefix, val, mac) == [prefix |-> prefix, val |-> val, mac |-> mac]
NoCookie == Raw(FALSE, NoId, <<>>)
ForgedMac == <<NoId, "forged">>

\* signature.unsign(val, secret): the value if the tag verifies, else false
Unsign(raw, secret) == IF raw.mac = Sign(raw.val, secret) THEN raw.val ELSE NoId

RECURSIVE unsignFrom(_, _, _)
unsignFrom(raw, secrets, i) ==
  IF i > Len(secrets) THEN NoId
  ELSE IF Unsign(raw, secrets[i]) # NoId THEN Unsign(raw, secrets[i])
  ELSE unsignFrom(raw, secrets, i + 1)

\* an unsigncookie that tries the first secret only
unsignFirstOnly(raw, secrets) == Unsign(raw, secrets[1])

\* unsigncookie: the first secret that verifies wins, false when none does
unsigncookie(raw, secrets) == unsignFrom(raw, secrets, 1)

\* a source read without verifying its signature
fromRawUnverified(raw, secrets) ==
  IF raw # NoCookie /\ raw.prefix THEN raw.val ELSE NoId

\* one source of getcookie that holds a raw value (header or req.cookies)
fromRaw(raw, secrets) ==
  IF raw # NoCookie /\ raw.prefix THEN unsigncookie(raw, secrets) ELSE NoId

\* getcookie: the cookie header, then req.signedCookies, then req.cookies;
\* result <<identifier, source that yielded it>>
getcookie(header, signedCookies, cookies, secrets) ==
  LET v1 == fromRaw(header, secrets)
      v2 == IF v1 = NoId THEN signedCookies ELSE v1
      v3 == IF v2 = NoId THEN fromRaw(cookies, secrets) ELSE v2
  IN  IF v1 # NoId THEN <<v1, "header">>
      ELSE IF v2 # NoId THEN <<v2, "signedCookies">>
      ELSE IF v3 # NoId THEN <<v3, "cookies">>
      ELSE <<NoId, "none">>

\* setcookie: the value of the Set-Cookie header, signed with the given secret
setcookie(val, secret) == Raw(TRUE, val, Sign(val, secret))

\* -------------------------------------------------------- cookie metadata
\* the milliseconds that pass between the two reads of Date.now() a cookie
\* setter makes: one in the maxAge setter, one in the maxAge getter
VARIABLE latency

\* the maxAge setter followed by the expires setter, at time t: the
\* expiration is t + ms; originalMaxAge is read back from it by the maxAge
\* getter, which reads the clock again, latency later; NaN gives an invalid
\* Date and reads back as NaN
setMaxAge(c, ms, t) ==
  LET expires == IF ms = NullT THEN NullT
                 ELSE IF ms = Invalid THEN Invalid
                 ELSE t + ms
  IN  [c EXCEPT !.expires = expires,
                !.originalMaxAge = IF expires = NullT THEN NullT
                                   ELSE IF expires = Invalid THEN Invalid
                                   ELSE expires - (t + latency)]

\* new Cookie(cookieOptions) at time t
Cookie(opts, t) ==
  setMaxAge([expires |-> NullT, originalMaxAge |-> NullT,
             secure |-> opts.secure], opts.maxAge, t)

\* Cookie.toJSON / JSON.stringify: the expiration becomes a date string; an
\* invalid Date and NaN become null
CookieToJSON(c) ==
  [expires |-> IF c.expires \in {NullT, Invalid} THEN <<>> ELSE <<c.expires>>,
   originalMaxAge |-> IF c.originalMaxAge = Invalid THEN NullT
                      ELSE c.originalMaxAge,
   secure |-> c.secure]

\* Session.prototype.touch -> resetMaxAge: cookie.maxAge = originalMaxAge
TouchCookie(c, t) == setMaxAge(c, c.originalMaxAge, t)

\* ---------------------------------------------------------------- session
\* new Session(req): id is fixed to req.sessionID at construction
Session(id, data, cookie) == [id |-> id, data |-> data, cookie |-> cookie]

\* JSON.stringify(session): id and methods are not enumerable; an object
\* without a cookie property gives a snapshot without one
Stringify(sess) ==
  [data |-> sess.data,
   cookie |-> IF sess.cookie = Null THEN Null ELSE CookieToJSON(sess.cookie)]

\* hash(sess): digest of the serialization without sess.cookie
hash(sess) == sess.data

\* a createSession that leaves originalMaxAge as the expires setter set it
createSessionNoRestore(id, snap) ==
  Session(id, snap.data,
          [expires |-> IF snap.cookie.expires = <<>> THEN NullT
                       ELSE snap.cookie.expires[1],
           originalMaxAge |-> IF snap.cookie.expires = <<>> THEN NullT
                              ELSE snap.cookie.expires[1],
           secure |-> snap.cookie.secure])

\* Store.prototype.createSession: revive the expiration, keep originalMaxAge
createSession(id, snap) ==
  Session(id, snap.data,
          [expires |-> IF snap.cookie.expires = <<>> THEN NullT
                       ELSE snap.cookie.expires[1],
           originalMaxAge |-> snap.cookie.originalMaxAge,
           secure |-> snap.cookie.secure])


\* ------------------------------------------------------------ MemoryStore
\* a getSession that does not look at the expiration
getSessionStale(sessions, sessionId, now) ==
  IF sessionId \notin DOMAIN sessions THEN <<sessions, Null>>
  ELSE <<sessions, sessions[sessionId]>>

\* getSession: parse the entry; an entry expired at time now is deleted and
\* reported absent.  Result <<sessions after the access, entry or Null>>
getSession(sessions, sessionId, now) ==
  IF sessionId \notin DOMAIN sessions \/ sessions[sessionId] = Null
  THEN <<sessions, Null>>
  ELSE LET sess == sessions[sessionId]
           expires == IF sess.cookie = Null \/ sess.cookie.expires = <<>>
                      THEN NullT
                      ELSE sess.cookie.expires[1]
       IN  IF expires # NullT /\ expires <= now
           THEN <<[sessions EXCEPT ![sessionId] = Null], Null>>
           ELSE <<sessions, sess>>

\* a set that keeps the cookie of an entry that is there
MemorySetKeepsCookie(sessions, sessionId, session) ==
  IF sessionId \notin DOMAIN sessions THEN sessions
  ELSE IF sessions[sessionId] = Null
  THEN [sessions EXCEPT ![sessionId] = Stringify(session)]
  ELSE [sessions EXCEPT ![sessionId].data = session.data]

\* MemoryStore.prototype.set: serialize and replace
MemorySet(sessions, sessionId, session) ==
  IF sessionId \in DOMAIN sessions
  THEN [sessions EXCEPT ![sessionId] = Stringify(session)]
  ELSE sessions

\* a destroy that leaves the entry where it is
MemoryDestroyKeeps(sessions, sessionId) == sessions

\* MemoryStore.prototype.destroy: unconditional delete
MemoryDestroy(sessions, sessionId) ==
  IF sessionId \in DOMAIN sessions
  THEN [sessions EXCEPT ![sessionId] = Null]
  ELSE sessions

\* a touch that writes the whole object, as set does
MemoryTouchReplaces(sessions, sessionId, session, now) ==
  MemorySet(getSession(sessions, sessionId, now)[1], sessionId, session)

\* MemoryStore.prototype.touch: replace only the cookie of a live entry
MemoryTouch(sessions, sessionId, session, now) ==
  LET got == getSession(sessions, sessionId, now)
  IN  IF got[2] # Null
      THEN [got[1] EXCEPT ![sessionId] =
              [got[2] EXCEPT !.cookie = Stringify(session).cookie]]
      ELSE got[1]

RECURSIVE allFrom(_, _, _)
\* the loop of MemoryStore.prototype.all from identifier i on: getSession for
\* each key, the live ones collected.  Result <<sessions after, the map>>
allFrom(sessions, i, now) ==
  IF i \notin DOMAIN sessions
  THEN <<sessions, [j \in DOMAIN sessions |-> Null]>>
  ELSE LET got == getSession(sessions, i, now)
           rest == allFrom(got[1], i + 1, now)
       IN  <<rest[1], [rest[2] EXCEPT ![i] = got[2]]>>

\* MemoryStore.prototype.all
MemoryAll(sessions, now) == allFrom(sessions, 0, now)

\* MemoryStore.prototype.length: the number of keys of what all yields
MemoryLength(sessions, now) ==
  LET all == MemoryAll(sessions, now)
  IN  <<all[1], Cardinality({i \in DOMAIN sessions : all[2][i] # Null})>>

\* a store in which set does not overwrite an entry
StoreEffectNoOverwrite(sessions, p, now) ==
  CASE p.op = "set" -> IF p.id \in DOMAIN sessions /\ sessions[p.id] # Null
                       THEN sessions
                       ELSE MemorySet(sessions, p.id, p.sess)
    [] p.op = "destroy" -> MemoryDestroy(sessions, p.id)
    [] p.op = "touch" -> MemoryTouch(sessions, p.id, p.sess, now)
    [] p.op = "get" -> getSession(sessions, p.id, now)[1]
    [] OTHER -> sessions

\* the effect of one store operation on the map
StoreEffect(sessions, p, now) ==
  CASE p.op = "set" -> MemorySet(sessions, p.id, p.sess)
    [] p.op = "destroy" -> MemoryDestroy(sessions, p.id)
    [] p.op = "touch" -> MemoryTouch(sessions, p.id, p.sess, now)
    [] p.op = "get" -> getSession(sessions, p.id, now)[1]
    [] OTHER -> sessions

\* ------------------------------------------------------------------ state
VARIABLES
  cfg,       \* the options session() was set up with (never change)
  storeReady, \* cleared by the store's 'disconnect', set by its 'connect'
  sessions,  \* MemoryStore.sessions: identifier -> serialized snapshot
  now,       \* Date.now()
  nextId,    \* the identifier generator: identifiers are never repeated
  served,    \* requests received so far
  jar,       \* the client's cookie jar: the last Set-Cookie of a request over
  req,       \* per request: req, res and the closure of the middleware
  direct     \* a caller of the store itself: its object and its last answer

vars ==
  <<cfg, storeReady, sessions, now, nextId, served, jar, req, direct, latency>>

\* a store operation in flight
Op(op, id, sess) ==
  [op |-> op, id |-> id, sess |-> sess, applied |-> FALSE, err |-> "",
   result |-> Null]
NoOp == Op("none", NoId, Null)

\* an entry of a request's log: a store operation issued (op, id), or the
\* callback of the last one issued (op "cb", its error, whether get found one)
Ev(op, id, err, found) == [op |-> op, id |-> id, err |-> err, found |-> found]
Called(p) == Ev(p.op, p.id, "", FALSE)
Back(p) == Ev("cb", p.id, p.err, p.result # Null)

NewReq ==
  [pc |-> "new", hdr |-> NoCookie, src |-> "none", secure |-> FALSE,
   cookieId |-> NoId, sessionID |-> NoId, session |-> Null,
   originalId |-> NoId, originalHash |-> NoHash, savedHash |-> NoHash,
   touched |-> FALSE, touchCalls |-> 0, ended |-> FALSE, header |-> FALSE,
   setCookie |-> NoCookie, body |-> <<>>, endCount |-> 0,
   endArg |-> NullChunk, chunk |-> NullChunk,
   sync |-> FALSE, calls |-> 0, ret |-> "none", pending |-> NoOp,
   handlerOp |-> NoOp,
   log |-> <<>>,
   errq |-> 0, nextErr |-> <<>>, secrets |-> <<>>,
   given |-> [preset |-> FALSE, path |-> <<"/">>, secret |-> ""]]

Configs ==
  [resave : BOOLEAN, rolling : BOOLEAN, saveUninitialized : BOOLEAN,
   unsetDestroy : BOOLEAN, storeImplementsTouch : BOOLEAN,
   cookie : [maxAge : {NullT, MaxAge}, secure : BOOLEAN, path : {<<>>}],
   secret : {<<"k1">>}]

\* a caller of the store that has not called yet: the object it holds, the
\* operation and identifier of its last call, and what get, all and length
\* answered
NoDirect ==
  [obj |-> Null, op |-> "none", id |-> NoId, got |-> Null,
   listed |-> [i \in IdSpace |-> Null], count |-> -1]

\* the state after session(options) with one of the given options
InitWith(configs) ==
  /\ cfg \in configs
  /\ storeReady = TRUE
  /\ sessions = [i \in IdSpace |-> Null]
  /\ now = 0
  /\ nextId = 1
  /\ served = 0
  /\ jar = NoCookie
  /\ req = [r \in Reqs |-> NewReq]
  /\ direct = NoDirect
  /\ latency = 0

Init == InitWith({c \in Configs : ~c.resave /\ c.storeImplementsTouch})


\* ------------------------------------------- the middleware's closures
\* a test for any identifier at all instead of a string
IsStringAny(id) == id # NoId

\* typeof req.sessionID === 'string'
IsString(id) == id \in IdSpace

\* generate() that keeps the identifier the request came with
generateReusing(q, id, t) ==
  LET sid == IF q.sessionID # NoId THEN q.sessionID ELSE id
      sess == Session(sid, 0, Cookie(cfg.cookie, t))
  IN  [q EXCEPT !.sessionID = sid, !.session = sess,
                !.originalId = sid, !.originalHash = hash(sess)]

\* generate(): store.generate(req), then record the original id and hash
generate(q, id, t) ==
  LET sess == Session(id, 0, Cookie(cfg.cookie, t))
  IN  [q EXCEPT !.sessionID = id, !.session = sess,
                !.originalId = id, !.originalHash = hash(sess)]

\* store.generate(req): a new identifier, a new session with a new cookie
storeGenerate(q, id, t) ==
  [q EXCEPT !.sessionID = id, !.session = Session(id, 0, Cookie(cfg.cookie, t))]

\* a callback of regenerate that stops at an error of destroy
regenerateStopsOnError(q, err, id, t) ==
  LET q1 == [q EXCEPT !.log = Append(@, Back(q.pending)), !.pending = NoOp]
  IN  IF err # "" THEN q1 ELSE storeGenerate(q1, id, t)

\* the callback Store.prototype.regenerate gives to destroy: generate, then
\* fn(err)
regenerateCallback(q, err, id, t) ==
  storeGenerate([q EXCEPT !.log = Append(@, Back(q.pending)),
                          !.pending = NoOp], id, t)

\* inflate() that does not seed the saved hash
inflateNoSeed(q, snap) ==
  LET sess == createSession(q.sessionID, snap)
  IN  [q EXCEPT !.session = sess,
                !.originalId = q.sessionID, !.originalHash = hash(sess)]

\* inflate(req, sess): createSession, original hash, and the saved hash
\* seeded when resave is off
inflate(q, snap) ==
  LET sess == createSession(q.sessionID, snap)
  IN  [q EXCEPT !.session = sess,
                !.originalId = q.sessionID, !.originalHash = hash(sess),
                !.savedHash = IF ~cfg.resave THEN hash(sess) ELSE @]

\* isModified() that compares the identifier only
isModifiedIdOnly(q, sess) == q.originalId # sess.id

isModified(q, sess) == q.originalId # sess.id \/ q.originalHash # hash(sess)

\* isSaved() that never finds the session saved
isSavedNever(q, sess) == FALSE

isSaved(q, sess) == q.originalId = sess.id /\ q.savedHash = hash(sess)

\* shouldDestroy() that does not look at the unset option
shouldDestroyAlways(q) == q.sessionID # NoId /\ q.session = Null

shouldDestroy(q) == q.sessionID # NoId /\ cfg.unsetDestroy /\ q.session = Null

\* shouldSave() without the case of the uninitialized session
shouldSaveEager(q) ==
  IF ~IsString(q.sessionID) THEN FALSE ELSE ~isSaved(q, q.session)

shouldSave(q) ==
  IF ~IsString(q.sessionID) THEN FALSE
  ELSE IF ~cfg.saveUninitialized /\ q.savedHash = NoHash
          /\ q.cookieId # q.sessionID
       THEN isModified(q, q.session)
       ELSE ~isSaved(q, q.session)

\* shouldTouch() that does not compare the identifier with the presented one
shouldTouchAny(q) ==
  IF ~IsString(q.sessionID) THEN FALSE ELSE ~shouldSave(q)

shouldTouch(q) ==
  IF ~IsString(q.sessionID) THEN FALSE
  ELSE q.cookieId = q.sessionID /\ ~shouldSave(q)

\* shouldSetCookie() without the rolling option
shouldSetCookieNoRolling(q) ==
  IF ~IsString(q.sessionID) THEN FALSE
  ELSE IF q.cookieId # q.sessionID
       THEN cfg.saveUninitialized \/ isModified(q, q.session)
       ELSE q.session.cookie.expires # NullT /\ isModified(q, q.session)

shouldSetCookie(q) ==
  IF ~IsString(q.sessionID) THEN FALSE
  ELSE IF q.cookieId # q.sessionID
       THEN cfg.saveUninitialized \/ isModified(q, q.session)
       ELSE cfg.rolling
            \/ (q.session.cookie.expires # NullT /\ isModified(q, q.session))

\* req.session.touch(): the expiration of the cookie is refreshed; the calls
\* are counted
touch(q, t) ==
  [q EXCEPT !.session.cookie = TouchCookie(@, t), !.touchCalls = @ + 1]

\* a test of the touched flag that finds it clear every time
untouchedAlways(q) == TRUE

\* if (!touched)
untouched(q) == ~q.touched

\* a serialization that accepts every expiration
serializesAlways(c) == TRUE

\* cookie.serialize(name, signed, options) returns; it throws 'option expires
\* is invalid' for an expiration that is not a valid Date
serializes(c) == c.expires # Invalid

\* an onHeaders listener that sends secure cookies over any connection
onHeadersAnywhere(q, t) ==
  IF q.session = Null THEN q
  ELSE IF ~shouldSetCookie(q) THEN q
  ELSE LET q1 == IF untouched(q)
                 THEN [touch(q, t) EXCEPT !.touched = TRUE]
                 ELSE q
       IN  IF serializes(q1.session.cookie)
           THEN [q1 EXCEPT !.setCookie = setcookie(q.sessionID, q.secrets[1])]
           ELSE [q1 EXCEPT !.errq = @ + 1]

\* the onHeaders listener: runs once, when the header is first written; an
\* exception of setcookie is caught and handed to setImmediate(next, err)
onHeaders(q, t) ==
  IF q.session = Null THEN q
  ELSE IF ~shouldSetCookie(q) THEN q
  ELSE IF q.session.cookie.secure /\ ~q.secure THEN q
  ELSE LET q1 == IF untouched(q)
                 THEN [touch(q, t) EXCEPT !.touched = TRUE]
                 ELSE q
       IN  IF serializes(q1.session.cookie)
           THEN [q1 EXCEPT !.setCookie = setcookie(q.sessionID, q.secrets[1])]
           ELSE [q1 EXCEPT !.errq = @ + 1]

\* res._implicitHeader() / the first write: the header goes out once
writeHead(q, t) ==
  IF q.header THEN q ELSE [onHeaders(q, t) EXCEPT !.header = TRUE]

Bytes(chunk) == IF chunk = NullChunk THEN <<>> ELSE chunk

\* the underlying res.write
underlyingWrite(q, chunk, t) ==
  [writeHead(q, t) EXCEPT !.body = @ \o Bytes(chunk)]

\* an underlying res.end that writes the chunk and leaves the response open
underlyingEndOpen(q, chunk, t) ==
  [writeHead(q, t) EXCEPT !.body = @ \o Bytes(chunk)]

\* the underlying res.end
underlyingEnd(q, chunk, t) ==
  [writeHead(q, t) EXCEPT !.body = @ \o Bytes(chunk), !.endCount = @ + 1]

\* writeend() without its sync flag: the chunk is handed over again
writeendResends(q, t) == underlyingEnd(q, q.chunk, t)

\* writeend(): called from the store callback
writeend(q, t) ==
  IF q.sync
  THEN [underlyingEnd(q, q.chunk, t) EXCEPT !.sync = FALSE]
  ELSE underlyingEnd(q, NullChunk, t)

\* writetop() that ends the response itself instead of leaving it to writeend
writetopEndsEarly(q, contentLength, t) ==
  IF ~q.sync THEN q
  ELSE [underlyingEnd(q, q.chunk, t) EXCEPT !.sync = FALSE]

\* writetop(): called after the store operation was issued; contentLength
\* tells whether a positive Content-Length header is set
writetop(q, contentLength, t) ==
  IF ~q.sync THEN q
  ELSE LET q1 == writeHead(q, t)
           n == Len(q.chunk)
       IN  IF q.chunk = NullChunk THEN q1
           ELSE IF contentLength /\ n # 0
           THEN [underlyingWrite(q1, SubSeq(q.chunk, 1, n - 1), t)
                   EXCEPT !.chunk = SubSeq(q.chunk, n, n)]
           ELSE [underlyingWrite(q1, q.chunk, t) EXCEPT !.sync = FALSE]

\* a completion callback that returns after reporting the error
oncompleteStopsOnError(q, err, t) ==
  LET q1 == [q EXCEPT !.errq = IF err # "" THEN @ + 1 ELSE @,
                      !.log = Append(@, Back(q.pending)),
                      !.pending = NoOp]
  IN  IF err # "" THEN q1 ELSE writeend(q1, t)

\* ondestroy / onsave / ontouch: report the error later, then end
oncomplete(q, err, t) ==
  writeend([q EXCEPT !.errq = IF err # "" THEN @ + 1 ELSE @,
                     !.log = Append(@, Back(q.pending)),
                     !.pending = NoOp], t)

\* Store.prototype.createSession throws: sess.cookie.expires of a record
\* without a cookie property is a TypeError
inflateThrows(snap) == snap.cookie = Null

\* a catch that falls back to a new session
caughtGenerates(q, id, t) == [generate(q, id, t) EXCEPT !.pc = "handling"]

\* catch (e) { next(e); return }
caught(q, id, t) ==
  [q EXCEPT !.pc = "failed", !.nextErr = Append(@, "TypeError")]

\* a store.get callback that takes every error for a missing record
ongetLenient(q, err, sess, id, t) ==
  LET q1 == [q EXCEPT !.pending = NoOp, !.log = Append(@, Back(q.pending))]
  IN  IF err # "" \/ sess = Null
      THEN [generate(q1, id, t) EXCEPT !.pc = "handling"]
      ELSE [inflate(q1, sess) EXCEPT !.pc = "handling"]

\* the callback given to store.get; id is what generate() would draw; what
\* inflate throws is handed to next
onget(q, err, sess, id, t) ==
  LET q1 == [q EXCEPT !.pending = NoOp, !.log = Append(@, Back(q.pending))]
  IN  IF err # "" /\ err # "ENOENT"
      THEN [q1 EXCEPT !.pc = "failed", !.nextErr = Append(@, err)]
      ELSE IF err # "" \/ sess = Null
      THEN [generate(q1, id, t) EXCEPT !.pc = "handling"]
      ELSE IF inflateThrows(sess)
      THEN caught(q1, id, t)
      ELSE [inflate(q1, sess) EXCEPT !.pc = "handling"]

\* did onget draw an identifier
drew(q, q2) == q2.sessionID # q.sessionID


\* ------------------------------------------------------------ environment
\* how a store answers: callback inside the call, write inside the call and
\* callback later (MemoryStore), or write and callback both later
Modes == {"sync", "defer", "delay"}

\* Session.prototype.save: store.set(this.id, this, fn)
sessionSave(sess) == Op("set", sess.id, sess)

\* a store that takes the operation and performs nothing
issueLost(p, mode, err, t) == <<[p EXCEPT !.applied = TRUE], sessions>>

\* a store operation as issued: <<the operation in flight, sessions after>>
issue(p, mode, err, t) ==
  IF err # "" THEN <<[p EXCEPT !.err = err, !.applied = TRUE], sessions>>
  ELSE IF mode = "delay" THEN <<p, sessions>>
  ELSE <<[p EXCEPT !.applied = TRUE,
                   !.result = getSession(sessions, p.id, t)[2]],
         StoreEffect(sessions, p, t)>>

\* Set-Cookie values clients have received
Received ==
  ({jar} \cup {req[r].setCookie : r \in {x \in Reqs : req[x].header}})
    \ {NoCookie}

\* the request in this slot is over: the response ended, nothing in flight
over(q) ==
  /\ q.endCount > 0 /\ q.pending = NoOp /\ q.errq = 0
  /\ q.handlerOp = NoOp

\* identifiers a client can name: the ones it received, or one it made up
KnownIds == IF Received = {} THEN {0} ELSE {c.val : c \in Received}

\* what a client can put in a cookie: nothing, a cookie it received, that
\* cookie with a changed signature, or a bare identifier without "s:"
Presentable ==
  {NoCookie} \cup Received
    \cup {Raw(TRUE, i, ForgedMac) : i \in KnownIds}
    \cup {Raw(FALSE, i, <<>>) : i \in KnownIds}

\* what res.end may be given: null, the empty string, one or two bytes
Chunks == {NullChunk, <<>>, <<1>>, <<1, 2>>}

\* ---------------------------------------------------------------- actions
\* req.session as an earlier middleware left it
Foreign == [foreign |-> TRUE]

\* no req.secret
NoSecret == ""

\* a pathname or a cookie path of one character, and one that is not given
Slash == <<"/">>

NoPath == <<>>

\* hay.indexOf(needle): where needle first occurs in hay, from 0, or -1
indexOf(hay, needle) ==
  LET hits == {i \in 0..(Len(hay) - Len(needle)) :
                 SubSeq(hay, i + 1, i + Len(needle)) = needle}
  IN  IF hits = {} THEN -1
      ELSE CHOOSE i \in hits : \A j \in hits : i <= j

\* parseUrl.original(req).pathname || '/'
originalPath(pathname) == IF pathname = NoPath THEN Slash ELSE pathname

\* originalPath.indexOf(cookieOptions.path || '/') !== 0
pathnameMismatch(pathname) ==
  indexOf(originalPath(pathname),
          IF cfg.cookie.path = NoPath THEN Slash ELSE cfg.cookie.path) # 0

\* what the request came with: is req.session set, its pathname, and
\* req.secret
Given(preset, path, reqSecret) ==
  [preset |-> preset, path |-> path, secret |-> reqSecret]

\* a middleware that goes on while the store is disconnected
unreadyIgnored == FALSE

\* if (!storeReady)
unready == ~storeReady

\* short-circuits that look at the store only
shortCircuitStoreOnly(preset, path) ==
  IF unready THEN "disconnected" ELSE ""

\* the three early returns, in the order of the code; "" when none applies
shortCircuit(preset, path) ==
  IF preset THEN "session"
  ELSE IF unready THEN "disconnected"
  ELSE IF pathnameMismatch(path) THEN "path"
  ELSE ""

\* a secret check that looks at the option only
noSecretOption(reqSecret) == cfg.secret = <<>>

\* if (!secret && !req.secret)
noSecret(reqSecret) == cfg.secret = <<>> /\ reqSecret = NoSecret

\* const secrets = secret || [req.secret]
secretsOf(reqSecret) == IF cfg.secret # <<>> THEN cfg.secret ELSE <<reqSecret>>

\* the middleware returns through next without touching req or res
pass(r, given, why, err) ==
  /\ req' = [req EXCEPT ![r] =
               [NewReq EXCEPT !.pc = "passed", !.src = why, !.given = given,
                              !.session = IF given.preset THEN Foreign
                                          ELSE Null,
                              !.nextErr = IF err # "" THEN <<err>> ELSE <<>>]]
  /\ UNCHANGED <<nextId, sessions>>

\* what the middleware does once getcookie has answered gc
enter(r, given, header, secure, secrets, gc, mode, err) ==
  LET q0 == [NewReq EXCEPT !.hdr = header, !.src = gc[2], !.given = given,
                           !.secure = secure, !.secrets = secrets,
                           !.cookieId = gc[1], !.sessionID = gc[1]]
  IN  IF gc[1] = NoId
      THEN /\ req' = [req EXCEPT ![r] =
                       [generate(q0, nextId, now) EXCEPT !.pc = "handling"]]
           /\ nextId' = nextId + 1
           /\ UNCHANGED sessions
      ELSE LET is == issue(Op("get", gc[1], Null), mode, err, now)
               q1 == [q0 EXCEPT !.pc = "fetching", !.pending = is[1],
                                !.log = Append(@, Called(is[1]))]
               q2 == IF mode = "sync"
                     THEN onget(q1, is[1].err, is[1].result, nextId, now)
                     ELSE q1
           IN  /\ req' = [req EXCEPT ![r] = q2]
               /\ nextId' = IF drew(q1, q2) THEN nextId + 1 ELSE nextId
               /\ sessions' = is[2]

\* the middleware from the secrets on; a source of getcookie the code does
\* not read is left empty
resolve(r, given, secrets, headers, sources, modes, errs) ==
  \E header \in headers,
     secure \in (IF cfg.cookie.secure THEN BOOLEAN ELSE {FALSE}) :
    IF fromRaw(header, secrets) # NoId
    THEN \E mode \in modes, err \in errs :
           enter(r, given, header, secure, secrets,
                 getcookie(header, NoId, NoCookie, secrets), mode, err)
    ELSE \E signedCookies \in {NoId} \cup {c.val : c \in sources} :
           IF signedCookies # NoId
           THEN \E mode \in modes, err \in errs :
                  enter(r, given, header, secure, secrets,
                        getcookie(header, signedCookies, NoCookie, secrets),
                        mode, err)
           ELSE \E cookies \in {NoCookie} \cup sources :
                  LET gc == getcookie(header, NoId, cookies, secrets)
                  IN  IF gc[1] = NoId
                      THEN enter(r, given, header, secure, secrets, gc,
                                 "sync", "")
                      ELSE \E mode \in modes, err \in errs :
                             enter(r, given, header, secure, secrets, gc,
                                   mode, err)

\* the middleware function up to its return, for a request that takes slot r.
\* presets: may req.session be set already; paths: what the pathname may
\* be; reqSecrets: what req.secret may hold; headers: what
\* the cookie header may hold; sources: what req.signedCookies and req.cookies
\* may hold.  An input the code does not get to read keeps its usual value
StartWithin(r, quota, presets, paths, reqSecrets, headers, sources, modes, errs) ==
  /\ req[r].pc = "new" \/ over(req[r])
  /\ served < quota
  /\ served' = served + 1
  /\ jar' = IF req[r].setCookie # NoCookie THEN req[r].setCookie ELSE jar
  /\ \E preset \in presets :
     \E path \in (IF preset \/ unready THEN {Slash} ELSE paths) :
       IF shortCircuit(preset, path) # ""
       THEN pass(r, Given(preset, path, NoSecret),
                 shortCircuit(preset, path), "")
       ELSE \E reqSecret \in (IF cfg.secret # <<>> THEN {NoSecret}
                              ELSE reqSecrets) :
              IF noSecret(reqSecret)
              THEN pass(r, Given(preset, path, reqSecret), "secret",
                        "secret option required for sessions")
              ELSE resolve(r, Given(preset, path, reqSecret),
                           secretsOf(reqSecret),
                           headers, sources, modes, errs)
  /\ UNCHANGED <<cfg, latency, direct, storeReady, now>>

\* the middleware function for one of at most MaxReqs requests
Start(r, presets, paths, reqSecrets, headers, sources, modes, errs) ==
  StartWithin(r, MaxReqs, presets, paths, reqSecrets, headers, sources, modes,
              errs)

\* a delayed store that performs a touch as it performs a set
StoreApplyWhole(r) ==
  /\ req[r].pending.op # "none"
  /\ ~req[r].pending.applied
  /\ req[r].pending.err = ""
  /\ req' = [req EXCEPT ![r].pending.applied = TRUE,
                        ![r].pending.result =
                           getSession(sessions, req[r].pending.id, now)[2]]
  /\ sessions' =
       IF req[r].pending.op = "touch"
       THEN MemorySet(sessions, req[r].pending.id, req[r].pending.sess)
       ELSE StoreEffect(sessions, req[r].pending, now)
  /\ UNCHANGED <<cfg, latency, direct, storeReady, now, nextId, served, jar>>

\* a delayed store performs the operation
StoreApply(r) ==
  /\ req[r].pending.op # "none"
  /\ ~req[r].pending.applied
  /\ req[r].pending.err = ""
  /\ req' = [req EXCEPT ![r].pending.applied = TRUE,
                        ![r].pending.result =
                           getSession(sessions, req[r].pending.id, now)[2]]
  /\ sessions' = StoreEffect(sessions, req[r].pending, now)
  /\ UNCHANGED <<cfg, latency, direct, storeReady, now, nextId, served, jar>>

\* the store calls back the function given to store.get
GetDone(r) ==
  /\ req[r].pending.op = "get"
  /\ req[r].pending.applied
  /\ LET q2 == onget(req[r], req[r].pending.err, req[r].pending.result,
                     nextId, now)
     IN  /\ req' = [req EXCEPT ![r] = q2]
         /\ nextId' = IF drew(req[r], q2) THEN nextId + 1 ELSE nextId
  /\ UNCHANGED <<cfg, latency, direct, storeReady, sessions, now, served, jar>>

\* the handler changes the content of the session to one of the values
ModifyTo(r, values) ==
  /\ req[r].pc = "handling" /\ ~req[r].ended
  /\ req[r].session # Null
  /\ \E d \in values \ {req[r].session.data} :
       req' = [req EXCEPT ![r].session.data = d]
  /\ UNCHANGED <<cfg, latency, direct, storeReady, sessions, now, nextId,
                 served, jar>>

\* the handler changes the content of the session
Modify(r) == ModifyTo(r, Data)

\* the handler sets req.session = null
Unset(r) ==
  /\ req[r].pc = "handling" /\ ~req[r].ended
  /\ req[r].session # Null
  /\ req' = [req EXCEPT ![r].session = Null]
  /\ UNCHANGED <<cfg, latency, direct, storeReady, sessions, now, nextId,
                 served, jar>>

\* the handler calls res.write before res.end
Write(r) ==
  /\ req[r].pc = "handling" /\ ~req[r].ended
  /\ req[r].body = <<>>
  /\ req' = [req EXCEPT ![r] = underlyingWrite(req[r], <<0>>, now)]
  /\ UNCHANGED <<cfg, latency, direct, storeReady, sessions, now, nextId,
                 served, jar>>

\* Session.prototype.reload: store.get(this.id, fn)
sessionReload(sess) == Op("get", sess.id, Null)

\* the callback of Session.prototype.reload: a record that was found becomes
\* req.session through store.createSession(req, record)
reloaded(q, record) ==
  IF record # Null THEN createSession(q.sessionID, record) ELSE q.session

\* the handler replaces req.sessionID by something that is not a string
Corrupt(r) ==
  /\ req[r].pc = "handling" /\ ~req[r].ended
  /\ IsString(req[r].sessionID)
  /\ req' = [req EXCEPT ![r].sessionID = BogusId]
  /\ UNCHANGED <<cfg, latency, direct, storeReady, sessions, now, nextId,
                 served, jar>>

\* session.save and session.reload calls the handler made so far
handlerOps(q) == SelectSeq(q.log, LAMBDA e : e.op \in {"save", "reload"})

\* may the handler call a method of req.session now
mayCall(q) ==
  /\ q.pc = "handling" /\ ~q.ended
  /\ q.session # Null /\ IsString(q.sessionID)
  /\ q.pending = NoOp
  /\ Len(handlerOps(q)) < MaxHandlerOps

\* the handler calls req.session.save(fn): the wrapped save records the hash,
\* then the session's own save hands the session to store.set
Save(r, modes, errs) ==
  /\ mayCall(req[r])
  /\ \E mode \in modes, err \in errs :
       LET is == issue(sessionSave(req[r].session), mode, err, now)
       IN  /\ req' = [req EXCEPT
                        ![r].savedHash = hash(req[r].session),
                        ![r].pending = [is[1] EXCEPT !.op = "save"],
                        ![r].log = Append(@, Ev("save", is[1].id, "", FALSE))]
           /\ sessions' = is[2]
  /\ UNCHANGED <<cfg, latency, direct, storeReady, now, nextId, served, jar>>

\* the handler calls req.session.reload(fn): store.get under the session's id
Reload(r, modes) ==
  /\ mayCall(req[r])
  /\ \E mode \in modes :
       LET is == issue(sessionReload(req[r].session), mode, "", now)
       IN  /\ req' = [req EXCEPT
                        ![r].pending = [is[1] EXCEPT !.op = "reload"],
                        ![r].log = Append(@, Ev("reload", is[1].id, "", FALSE))]
           /\ sessions' = is[2]
  /\ UNCHANGED <<cfg, latency, direct, storeReady, now, nextId, served, jar>>

\* did the handler call req.session.regenerate in this request
regenerating(q) == \E k \in 1..Len(q.log) : q.log[k].op = "regenerate"

\* the handler calls req.session.regenerate(fn), once in a request:
\* Store.prototype.regenerate hands req.sessionID to store.destroy
Regenerate(r, modes, errs) ==
  /\ mayCall(req[r])
  /\ ~regenerating(req[r])
  /\ \E mode \in modes, err \in errs :
       LET is == issue(Op("destroy", req[r].sessionID, Null), mode, err, now)
       IN  /\ req' = [req EXCEPT
                        ![r].pending = [is[1] EXCEPT !.op = "regenerate"],
                        ![r].log = Append(@, Ev("regenerate", is[1].id, "",
                                                FALSE))]
           /\ sessions' = is[2]
  /\ UNCHANGED <<cfg, latency, direct, storeReady, now, nextId, served, jar>>

\* the store calls back the function Store.prototype.regenerate gave it
RegenerateDone(r) ==
  /\ req[r].pending.op = "regenerate"
  /\ req[r].pending.applied
  /\ req' = [req EXCEPT ![r] =
               regenerateCallback(req[r], req[r].pending.err, nextId, now)]
  /\ nextId' = nextId + 1
  /\ UNCHANGED <<cfg, latency, direct, storeReady, sessions, now, served, jar>>

\* the store calls back the function the handler's save or reload gave it;
\* a reload that found the record replaces req.session through createSession
HandlerDone(r) ==
  /\ req[r].pending.op \in {"save", "reload"}
  /\ req[r].pending.applied
  /\ req' = [req EXCEPT
               ![r].log = Append(@, Back(req[r].pending)),
               ![r].pending = NoOp,
               ![r].session =
                  IF req[r].pending.op = "reload"
                  THEN reloaded(req[r], req[r].pending.result)
                  ELSE @]
  /\ UNCHANGED <<cfg, latency, direct, storeReady, sessions, now, nextId,
                 served, jar>>

\* res.end of a request the middleware passed on: nothing is intercepted
PlainEnd(r) ==
  /\ req[r].pc = "passed"
  /\ req[r].endCount = 0
  /\ req' = [req EXCEPT ![r].header = TRUE, ![r].endCount = 1]
  /\ UNCHANGED <<cfg, latency, direct, storeReady, sessions, now, nextId,
                 served, jar>>

\* the clock advances
Tick ==
  /\ now < MaxTime
  /\ now' = now + 1
  /\ UNCHANGED <<cfg, latency, direct, storeReady, sessions, nextId, served,
                 jar, req>>

\* the next cookie setters run with another delay between their clock reads
Jitter ==
  /\ latency' \in (0..MaxLatency) \ {latency}
  /\ UNCHANGED <<cfg, direct, storeReady, sessions, now, nextId, served, jar,
                 req>>

\* store.set(id, object) by a caller that keeps the object
DirectSet(ids, objs) ==
  /\ \E id \in ids, o \in objs :
       /\ sessions' = MemorySet(sessions, id, o)
       /\ direct' = [NoDirect EXCEPT !.obj = o, !.op = "set", !.id = id]
  /\ UNCHANGED <<cfg, latency, storeReady, now, nextId, served, jar, req>>

\* store.touch(id, object)
DirectTouch(ids, objs) ==
  /\ \E id \in ids, o \in objs :
       /\ sessions' = MemoryTouch(sessions, id, o, now)
       /\ direct' = [NoDirect EXCEPT !.obj = o, !.op = "touch", !.id = id]
  /\ UNCHANGED <<cfg, latency, storeReady, now, nextId, served, jar, req>>

\* the caller changes the content of the object it handed to the store
DirectMutate(values) ==
  /\ direct.obj # Null
  /\ \E d \in values \ {direct.obj.data} :
       direct' = [direct EXCEPT !.obj.data = d, !.op = "mutate"]
  /\ UNCHANGED <<cfg, latency, storeReady, sessions, now, nextId, served, jar,
                 req>>

\* store.destroy(id)
DirectDestroy(ids) ==
  /\ \E id \in ids :
       /\ sessions' = MemoryDestroy(sessions, id)
       /\ direct' = [NoDirect EXCEPT !.op = "destroy", !.id = id]
  /\ UNCHANGED <<cfg, latency, storeReady, now, nextId, served, jar, req>>

\* store.get(id, callback): the answer is taken inside the call
DirectGet(ids) ==
  /\ \E id \in ids :
       /\ sessions' = getSession(sessions, id, now)[1]
       /\ direct' = [NoDirect EXCEPT !.op = "get", !.id = id,
                                     !.got = getSession(sessions, id, now)[2]]
  /\ UNCHANGED <<cfg, latency, storeReady, now, nextId, served, jar, req>>

\* store.all(callback)
DirectAll ==
  /\ sessions' = MemoryAll(sessions, now)[1]
  /\ direct' = [NoDirect EXCEPT !.op = "all",
                                !.listed = MemoryAll(sessions, now)[2]]
  /\ UNCHANGED <<cfg, latency, storeReady, now, nextId, served, jar, req>>

\* store.length(callback)
DirectLength ==
  /\ sessions' = MemoryLength(sessions, now)[1]
  /\ direct' = [NoDirect EXCEPT !.op = "length",
                                !.count = MemoryLength(sessions, now)[2]]
  /\ UNCHANGED <<cfg, latency, storeReady, now, nextId, served, jar, req>>

\* the store emits 'disconnect'
Disconnect ==
  /\ storeReady
  /\ storeReady' = FALSE
  /\ UNCHANGED <<cfg, latency, direct, sessions, now, nextId, served, jar, req>>

\* the store emits 'connect'
Connect ==
  /\ ~storeReady
  /\ storeReady' = TRUE
  /\ UNCHANGED <<cfg, latency, direct, sessions, now, nextId, served, jar, req>>

\* a wrapped res.end that does not look at its ended flag
neverEnded(q) == FALSE

\* the ended flag of the wrapped res.end
alreadyEnded(q) == q.ended

\* the wrapped res.end of the request q, once the inputs are fixed
endOf(q, chunk, contentLength, mode, err) ==
  LET q0 == [q EXCEPT !.ended = TRUE, !.sync = TRUE,
                      !.chunk = chunk, !.endArg = chunk,
                      !.calls = @ + 1, !.ret = "passthrough"]
      complete(qc, p) ==
        LET is == issue(p, mode, err, now)
            q1 == [qc EXCEPT !.pending = is[1],
                             !.log = Append(@, Called(p))]
            q2 == IF mode = "sync"
                  THEN oncomplete(q1, is[1].err, now) ELSE q1
        IN  <<writetop(q2, contentLength, now), is[2]>>
      touched == IF q0.session # Null /\ untouched(q0)
                 THEN [touch(q0, now) EXCEPT !.touched = TRUE]
                 ELSE q0
  IN  IF alreadyEnded(q)
      THEN <<[q EXCEPT !.calls = @ + 1, !.ret = "false"], sessions>>
      ELSE IF shouldDestroy(q0)
      THEN complete(q0, Op("destroy", q0.sessionID, Null))
      ELSE IF q0.session = Null
      THEN <<underlyingEnd(q0, chunk, now), sessions>>
      ELSE IF shouldSave(touched)
      THEN complete([touched EXCEPT !.savedHash = hash(touched.session)],
                    sessionSave(touched.session))
      ELSE IF cfg.storeImplementsTouch /\ shouldTouch(touched)
      THEN complete(touched,
                    Op("touch", touched.sessionID, touched.session))
      ELSE <<underlyingEnd(touched, chunk, now), sessions>>

\* a wrapped res.end that leaves the store alone while it is disconnected
endIfReady(r, chunk, contentLength, mode, err) ==
  IF unready /\ ~alreadyEnded(req[r])
  THEN <<[underlyingEnd(req[r], chunk, now)
            EXCEPT !.ended = TRUE, !.endArg = chunk, !.calls = @ + 1,
                   !.ret = "passthrough"], sessions>>
  ELSE endOf(req[r], chunk, contentLength, mode, err)

\* the wrapped res.end of the request in slot r
end(r, chunk, contentLength, mode, err) ==
  endOf(req[r], chunk, contentLength, mode, err)

\* does this call of res.end go to the store
completes(q) ==
  /\ ~alreadyEnded(q)
  /\ \/ shouldDestroy(q)
     \/ q.session # Null
        /\ (shouldSave(q) \/ (cfg.storeImplementsTouch /\ shouldTouch(q)))

\* a call of the wrapped res.end, by the handler or, after next(err), by the
\* application's error handler; calls is how often they call it
End(r, calls, chunks, modes, errs) ==
  /\ req[r].pc \in {"handling", "failed"}
  /\ req[r].calls < calls
  /\ req[r].pending.op \notin {"save", "reload", "regenerate"}
  /\ \E chunk \in chunks :
       IF completes(req[r])
       THEN \E mode \in modes, err \in errs :
            \E contentLength \in (IF chunk = NullChunk \/ mode = "sync"
                                  THEN {FALSE} ELSE BOOLEAN) :
              /\ req' = [req EXCEPT ![r] =
                          end(r, chunk, contentLength, mode, err)[1]]
              /\ sessions' = end(r, chunk, contentLength, mode, err)[2]
       ELSE /\ req' = [req EXCEPT ![r] = end(r, chunk, FALSE, "sync", "")[1]]
            /\ UNCHANGED sessions
  /\ UNCHANGED <<cfg, latency, direct, storeReady, now, nextId, served, jar>>

\* the handler calls res.end while the session.save it called is still
\* waiting for its callback: the save stays in flight beside whatever
\* res.end hands to the store
EndDuring(r, modes, errs) ==
  /\ req[r].pc = "handling" /\ req[r].calls = 0
  /\ req[r].pending.op = "save" /\ req[r].pending.applied
  /\ LET q == [req[r] EXCEPT !.handlerOp = req[r].pending, !.pending = NoOp]
     IN  IF completes(q)
         THEN \E mode \in modes, err \in errs :
                /\ req' = [req EXCEPT ![r] =
                            endOf(q, NullChunk, FALSE, mode, err)[1]]
                /\ sessions' = endOf(q, NullChunk, FALSE, mode, err)[2]
         ELSE /\ req' = [req EXCEPT ![r] =
                          endOf(q, NullChunk, FALSE, "sync", "")[1]]
              /\ UNCHANGED sessions
  /\ UNCHANGED <<cfg, latency, direct, storeReady, now, nextId, served, jar>>

\* the store calls back the function given to a session.save that res.end
\* did not wait for
LateDone(r) ==
  /\ req[r].handlerOp.op = "save"
  /\ req' = [req EXCEPT ![r].log = Append(@, Back(req[r].handlerOp)),
                        ![r].handlerOp = NoOp]
  /\ UNCHANGED <<cfg, latency, direct, storeReady, sessions, now, nextId,
                 served, jar>>

\* the store calls back ondestroy, onsave or ontouch
OpDone(r) ==
  /\ req[r].pending.op \in {"set", "touch", "destroy"}
  /\ req[r].pending.applied
  /\ req' = [req EXCEPT ![r] = oncomplete(req[r], req[r].pending.err, now)]
  /\ UNCHANGED <<cfg, latency, direct, storeReady, sessions, now, nextId,
                 served, jar>>

\* setImmediate(next, err) runs
NextErr(r) ==
  /\ req[r].errq > 0
  /\ req' = [req EXCEPT ![r].errq = @ - 1, ![r].nextErr = Append(@, "boom")]
  /\ UNCHANGED <<cfg, latency, direct, storeReady, sessions, now, nextId,
                 served, jar>>

\* requests one after the other, with every cookie a client can present;
\* the response body is left empty
Next ==
  \/ \E r \in {"a"} : Start(r, {FALSE}, {Slash}, {NoSecret},
                           Presentable, Presentable, {"defer"},
                           {"", "ENOENT", "boom"})
  \/ \E r \in Reqs : GetDone(r)
  \/ \E r \in Reqs : Modify(r)
  \/ \E r \in Reqs : Unset(r)
  \/ \E r \in Reqs : Write(r)
  \/ \E r \in Reqs : End(r, 1, {NullChunk}, {"defer"}, {"", "boom"})
  \/ \E r \in Reqs : OpDone(r)
  \/ \E r \in Reqs : NextErr(r)

Spec == Init /\ [][Next]_vars

\* the completion gate: every store behaviour and every chunk, for requests
\* that present no cookie or the one they received
InitGate ==
  InitWith({c \in Configs : /\ ~c.resave /\ c.storeImplementsTouch
                            /\ ~c.rolling /\ ~c.cookie.secure
                            /\ c.cookie.maxAge = MaxAge})

NextGate ==
  \/ \E r \in {"a"} : Start(r, {FALSE}, {Slash}, {NoSecret},
                           {NoCookie} \cup Received, {}, Modes,
                           {"", "ENOENT", "boom"})
  \/ \E r \in Reqs : StoreApply(r)
  \/ \E r \in Reqs : GetDone(r)
  \/ \E r \in Reqs : Modify(r)
  \/ \E r \in Reqs : Unset(r)
  \/ \E r \in Reqs : Write(r)
  \/ \E r \in Reqs : End(r, MaxCalls, Chunks, Modes, {"", "boom"})
  \/ \E r \in Reqs : OpDone(r)
  \/ \E r \in Reqs : NextErr(r)

SpecGate == InitGate /\ [][NextGate]_vars

\* the completion gate on a store that performs every operation it is
\* handed and calls every callback it is given
StoreAnswers ==
  \A r \in Reqs : WF_vars(StoreApply(r)) /\ WF_vars(OpDone(r))

SpecLive == InitGate /\ [][NextGate]_vars /\ StoreAnswers


\* what completion writes to the store: resave on and off, stores with and
\* without touch, handlers that save the session themselves
InitSave == InitWith({c \in Configs : ~c.unsetDestroy})

NextSave ==
  \/ \E r \in {"a"} : Start(r, {FALSE}, {Slash}, {NoSecret},
                           {NoCookie} \cup Received, {}, {"defer"},
                           {"", "ENOENT"})
  \/ \E r \in Reqs : GetDone(r)
  \/ \E r \in Reqs : Modify(r)
  \/ \E r \in Reqs : Save(r, {"defer"}, {""})
  \/ \E r \in Reqs : HandlerDone(r)
  \/ \E r \in Reqs : End(r, 1, {NullChunk}, {"defer"}, {""})
  \/ \E r \in Reqs : OpDone(r)

SpecSave == InitSave /\ [][NextSave]_vars

\* handlers that save, reload, write early or corrupt req.sessionID, on a
\* store with touch
InitHandler ==
  InitWith({c \in Configs : /\ ~c.unsetDestroy /\ c.storeImplementsTouch
                            /\ ~c.cookie.secure /\ c.cookie.maxAge = MaxAge})

NextHandler ==
  \/ \E r \in {"a"} : Start(r, {FALSE}, {Slash}, {NoSecret},
                           {NoCookie} \cup Received, {}, {"defer"}, {""})
  \/ \E r \in Reqs : GetDone(r)
  \/ \E r \in Reqs : Modify(r)
  \/ \E r \in Reqs : Write(r)
  \/ \E r \in Reqs : Corrupt(r)
  \/ \E r \in Reqs : Save(r, {"defer"}, {""})
  \/ \E r \in Reqs : Reload(r, {"defer"})
  \/ \E r \in Reqs : HandlerDone(r)
  \/ \E r \in Reqs : End(r, 1, {NullChunk}, {"defer"}, {""})
  \/ \E r \in Reqs : OpDone(r)

SpecHandler == InitHandler /\ [][NextHandler]_vars


\* entering the middleware: the early returns, the secret check, and lists
\* of secrets; the store disconnects and connects at any time, and clients
\* present cookies signed with either secret
Secrets == {"k1", "k2"}

EntryConfigs ==
  [resave : {FALSE}, rolling : BOOLEAN, saveUninitialized : {TRUE},
   unsetDestroy : {FALSE}, storeImplementsTouch : {TRUE},
   cookie : [maxAge : {MaxAge}, secure : {FALSE},
             path : {NoPath, <<"/", "a">>}],
   secret : {<<>>, <<"k1">>, <<"k1", "k2">>, <<"k2", "k1">>, <<"k2">>}]

\* pathnames of requests: none, the root, the cookie path, one below it, one
\* that goes on after it, and one beside it
Pathnames ==
  {NoPath, Slash, <<"/", "a">>, <<"/", "a", "/", "b">>, <<"/", "a", "b">>,
   <<"/", "b">>, <<"/", "b", "/", "a">>}

\* cookies a coordinator holding one of the secrets has issued
Issued == {NoCookie} \cup {setcookie(i, k) : i \in KnownIds, k \in Secrets}

InitEntry == InitWith(EntryConfigs)

NextEntry ==
  \/ \E r \in {"a"} : Start(r, BOOLEAN, Pathnames, {NoSecret, "k1"},
                           Issued, {}, {"defer"}, {""})
  \/ Disconnect
  \/ Connect
  \/ \E r \in Reqs : GetDone(r)
  \/ \E r \in Reqs : Modify(r)
  \/ \E r \in Reqs : End(r, 1, {NullChunk}, {"defer"}, {""})
  \/ \E r \in Reqs : OpDone(r)
  \/ \E r \in Reqs : PlainEnd(r)

SpecEntry == InitEntry /\ [][NextEntry]_vars


\* cookies that cannot be serialized next to cookies that can: the option
\* cookie.expires is an invalid Date, which is what maxAge NaN comes to
CookieConfigs ==
  [resave : {FALSE}, rolling : BOOLEAN, saveUninitialized : BOOLEAN,
   unsetDestroy : {FALSE}, storeImplementsTouch : {TRUE},
   cookie : [maxAge : {MaxAge, Invalid}, secure : {FALSE}, path : {NoPath}],
   secret : {<<"k1">>}]

InitCookie == InitWith(CookieConfigs)

NextCookie ==
  \/ \E r \in {"a"} : Start(r, {FALSE}, {Slash}, {NoSecret},
                           {NoCookie} \cup Received, {}, {"defer"}, {""})
  \/ \E r \in Reqs : GetDone(r)
  \/ \E r \in Reqs : Modify(r)
  \/ \E r \in Reqs : Write(r)
  \/ \E r \in Reqs : End(r, 1, {NullChunk, <<1>>}, {"defer"}, {""})
  \/ \E r \in Reqs : OpDone(r)
  \/ \E r \in Reqs : NextErr(r)

SpecCookie == InitCookie /\ [][NextCookie]_vars


\* two requests in flight at once on one store, which writes inside the call
\* or later; clients present the cookie they received as soon as there is
\* one; each request writes a value of its own
SharedData == 0..(MaxData + 1)

SharedConfigs ==
  [resave : BOOLEAN, rolling : {FALSE}, saveUninitialized : {TRUE},
   unsetDestroy : {FALSE}, storeImplementsTouch : {TRUE},
   cookie : [maxAge : {MaxAge}, secure : {FALSE}, path : {NoPath}],
   secret : {<<"k1">>}]

InitShared == InitWith(SharedConfigs)

NextShared ==
  \/ \E r \in Reqs :
       StartWithin(r, MaxShared, {FALSE}, {Slash}, {NoSecret},
                   IF Received = {} THEN {NoCookie} ELSE Received, {},
                   {"defer", "delay"}, {""})
  \/ \E r \in Reqs : StoreApply(r)
  \/ \E r \in Reqs : GetDone(r)
  \/ \E r \in Reqs : ModifyTo(r, SharedData)
  \/ \E r \in Reqs : End(r, 1, {NullChunk}, {"defer", "delay"}, {""})
  \/ \E r \in Reqs : OpDone(r)

SpecShared == InitShared /\ [][NextShared]_vars


\* handlers that regenerate the session, null it, or write early, on
\* connections secure or not
RegenConfigs ==
  [resave : {FALSE}, rolling : BOOLEAN, saveUninitialized : BOOLEAN,
   unsetDestroy : BOOLEAN, storeImplementsTouch : {TRUE},
   cookie : [maxAge : {MaxAge}, secure : BOOLEAN, path : {NoPath}],
   secret : {<<"k1">>}]

InitRegen == InitWith(RegenConfigs)

NextRegen ==
  \/ \E r \in {"a"} : Start(r, {FALSE}, {Slash}, {NoSecret},
                           {NoCookie} \cup Received, {}, {"defer"}, {""})
  \/ \E r \in Reqs : GetDone(r)
  \/ \E r \in Reqs : Modify(r)
  \/ \E r \in Reqs : Unset(r)
  \/ \E r \in Reqs : Write(r)
  \/ \E r \in Reqs : Regenerate(r, {"defer"}, {"", "boom"})
  \/ \E r \in Reqs : RegenerateDone(r)
  \/ \E r \in Reqs : End(r, 1, {NullChunk}, {"defer"}, {""})
  \/ \E r \in Reqs : OpDone(r)

SpecRegen == InitRegen /\ [][NextRegen]_vars


\* the store on its own: a caller sets, touches, destroys, gets, lists and
\* counts two identifiers while the clock advances; the objects it hands over
\* have no cookie, a cookie without expiration, or one that expires at or
\* after the start
StoreIds == {1, 2}

DirectCookies ==
  {[expires |-> e, originalMaxAge |-> IF e = NullT THEN NullT ELSE MaxAge,
    secure |-> FALSE] : e \in {NullT} \cup 0..(MaxTime + 1)}

DirectObjects ==
  {Session(NoId, d, c) : d \in Data, c \in {Null} \cup DirectCookies}

InitStore == InitWith({c \in SharedConfigs : ~c.resave})

NextStore ==
  \/ Tick
  \/ DirectSet(StoreIds, DirectObjects)
  \/ DirectTouch(StoreIds, DirectObjects)
  \/ DirectMutate(Data)
  \/ DirectDestroy(StoreIds)
  \/ DirectGet(StoreIds)
  \/ DirectAll
  \/ DirectLength

SpecStore == InitStore /\ [][NextStore]_vars


\* records put into the store behind the middleware's back, with and without
\* a cookie property, under identifiers clients hold
InflateConfigs ==
  [resave : {FALSE}, rolling : BOOLEAN, saveUninitialized : {TRUE},
   unsetDestroy : BOOLEAN, storeImplementsTouch : {TRUE},
   cookie : [maxAge : {MaxAge}, secure : {FALSE}, path : {NoPath}],
   secret : {<<"k1">>}]

InitInflate == InitWith(InflateConfigs)

NextInflate ==
  \/ \E r \in {"a"} : Start(r, {FALSE}, {Slash}, {NoSecret},
                           {NoCookie} \cup Received, {}, {"defer"}, {""})
  \/ \E r \in Reqs : GetDone(r)
  \/ \E r \in Reqs : Modify(r)
  \/ \E r \in Reqs : End(r, 1, {NullChunk}, {"defer"}, {""})
  \/ \E r \in Reqs : OpDone(r)
  \/ DirectSet({c.val : c \in Received}, DirectObjects)

SpecInflate == InitInflate /\ [][NextInflate]_vars

\* a max-age that stays positive however often the expiration is refreshed
AgeMaxAge == MaxAge + (MaxReqs + 1) * MaxLatency

\* sessions with and without a max-age, met again while the clock advances
AgeConfigs ==
  [resave : {FALSE}, rolling : BOOLEAN, saveUninitialized : {TRUE},
   unsetDestroy : {FALSE}, storeImplementsTouch : {TRUE},
   cookie : [maxAge : {NullT, AgeMaxAge}, secure : {FALSE}, path : {NoPath}],
   secret : {<<"k1">>}]

InitAge == InitWith(AgeConfigs)

NextAge ==
  \/ \E r \in {"a"} : Start(r, {FALSE}, {Slash}, {NoSecret},
                           {NoCookie} \cup Received, {}, {"defer"}, {""})
  \/ \E r \in Reqs : GetDone(r)
  \/ \E r \in Reqs : End(r, 1, {NullChunk}, {"defer"}, {""})
  \/ \E r \in Reqs : OpDone(r)
  \/ Tick
  \/ Jitter

SpecAge == InitAge /\ [][NextAge]_vars

\* handlers that save the session themselves on a store whose writes may fail
RetryConfigs ==
  [resave : {FALSE}, rolling : {FALSE}, saveUninitialized : BOOLEAN,
   unsetDestroy : {FALSE}, storeImplementsTouch : BOOLEAN,
   cookie : [maxAge : {MaxAge}, secure : {FALSE}, path : {NoPath}],
   secret : {<<"k1">>}]

InitRetry == InitWith(RetryConfigs)

NextRetry ==
  \/ \E r \in {"a"} : Start(r, {FALSE}, {Slash}, {NoSecret},
                           {NoCookie} \cup Received, {}, {"defer"}, {""})
  \/ \E r \in Reqs : GetDone(r)
  \/ \E r \in Reqs : Modify(r)
  \/ \E r \in Reqs : Save(r, {"defer"}, {"", "boom"})
  \/ \E r \in Reqs : HandlerDone(r)
  \/ \E r \in Reqs : End(r, 1, {NullChunk}, {"defer"}, {"", "boom"})
  \/ \E r \in Reqs : OpDone(r)
  \/ \E r \in Reqs : NextErr(r)

SpecRetry == InitRetry /\ [][NextRetry]_vars

\* handlers that end the response without waiting for their session.save
OverlapConfigs ==
  [resave : {FALSE}, rolling : BOOLEAN, saveUninitialized : {TRUE},
   unsetDestroy : BOOLEAN, storeImplementsTouch : BOOLEAN,
   cookie : [maxAge : {MaxAge}, secure : {FALSE}, path : {NoPath}],
   secret : {<<"k1">>}]

InitOverlap == InitWith(OverlapConfigs)

NextOverlap ==
  \/ \E r \in {"a"} : Start(r, {FALSE}, {Slash}, {NoSecret},
                           {NoCookie} \cup Received, {}, {"defer"}, {""})
  \/ \E r \in Reqs : GetDone(r)
  \/ \E r \in Reqs : Modify(r)
  \/ \E r \in Reqs : Unset(r)
  \/ \E r \in Reqs : Save(r, {"defer"}, {""})
  \/ \E r \in Reqs : HandlerDone(r)
  \/ \E r \in Reqs : EndDuring(r, {"defer"}, {""})
  \/ \E r \in Reqs : LateDone(r)
  \/ \E r \in Reqs : End(r, 1, {NullChunk}, {"defer"}, {""})
  \/ \E r \in Reqs : OpDone(r)

SpecOverlap == InitOverlap /\ [][NextOverlap]_vars


\* ------------------------------------------------- reading a request's log
CompletionOps == {"set", "touch", "destroy"}

\* the store operations res.end issued
completionCalls(q) == SelectSeq(q.log, LAMBDA e : e.op \in CompletionOps)

\* the callbacks of the operations named in ops that have fired so far
callbacks(q, ops) ==
  {q.log[i] : i \in {j \in 2..Len(q.log) :
                       q.log[j].op = "cb" /\ q.log[j - 1].op \in ops}}

\* what the handler wrote before it called res.end (Write writes a 0, which
\* no chunk contains)
early(q) == IF q.body # <<>> /\ q.body[1] = 0 THEN <<0>> ELSE <<>>

\* C1: when completion needs a store operation, the underlying end is
\* invoked only after the callback of that operation has fired
C1_EndAfterCallback ==
  \A r \in Reqs :
    (completionCalls(req[r]) # <<>> /\ req[r].endCount > 0)
      => /\ req[r].pending = NoOp
         /\ callbacks(req[r], CompletionOps) # {}

C1_Witness ==
  \E r \in Reqs :
    /\ completionCalls(req[r]) # <<>>
    /\ callbacks(req[r], CompletionOps) # {}
    /\ req[r].endCount = 1
    /\ req[r].body # <<>>

\* C2: a call of res.end after the first returns false, and over all calls at
\* most one store operation is issued and the underlying end runs at most once
C2_LaterEndIsNoop ==
  \A r \in Reqs :
    /\ Len(completionCalls(req[r])) <= 1
    /\ req[r].endCount <= 1
    /\ req[r].calls >= 2 => req[r].ret = "false"

C2_Witness ==
  \E r \in Reqs :
    /\ req[r].calls >= 2
    /\ req[r].ret = "false"
    /\ Len(completionCalls(req[r])) = 1
    /\ req[r].endCount = 1

\* C3: around a store operation the bytes handed to the underlying write and
\* end are exactly the chunk given to res.end, and the underlying end runs once
C3_BodyExact ==
  \A r \in Reqs :
    completionCalls(req[r]) # <<>> =>
      /\ req[r].endCount <= 1
      /\ req[r].pending = NoOp =>
           /\ req[r].endCount = 1
           /\ req[r].body = early(req[r]) \o Bytes(req[r].endArg)
      /\ req[r].pending # NoOp =>
           req[r].body \o (IF req[r].sync THEN Bytes(req[r].chunk) ELSE <<>>)
             = early(req[r]) \o Bytes(req[r].endArg)

C3_Witness ==
  \E r \in Reqs :
    /\ completionCalls(req[r]) # <<>>
    /\ req[r].pending = NoOp
    /\ req[r].endCount = 1
    /\ req[r].endArg = <<1, 2>>
    /\ req[r].body = <<0, 1, 2>>

\* errors the completion callbacks of a request were given
completionErrors(q) == {e \in callbacks(q, CompletionOps) : e.err # ""}

\* errors given to next by setImmediate so far
delivered(q) == Len(q.nextErr) - (IF q.pc = "failed" THEN 1 ELSE 0)

\* C4: an error of the completion-time operation is handed to next in a later
\* turn, and the underlying end is still invoked exactly once
C4_ErrorStillEnds ==
  /\ [](\A r \in Reqs :
          completionErrors(req[r]) # {} =>
            /\ req[r].endCount = 1
            /\ req[r].errq + delivered(req[r]) = 1)
  /\ [][\A r \in Reqs :
          (completionErrors(req[r]) = {} /\ completionErrors(req'[r]) # {})
            => /\ req'[r].nextErr = req[r].nextErr
               /\ req'[r].errq = 1]_vars

C4_Witness ==
  \E r \in Reqs :
    /\ completionErrors(req[r]) # {}
    /\ req[r].endCount = 1
    /\ req[r].errq = 0
    /\ req[r].nextErr = <<"boom">>
    /\ req[r].body = <<1, 2>>

\* ------------------------------------------- reading a request's session
\* the step in which the response header of r is written
HeaderStep(r) == ~req[r].header /\ req'[r].header

\* a cookie header whose value lacks the "s:" prefix or whose signature no
\* configured secret verifies
invalid(hdr) ==
  /\ hdr # NoCookie
  /\ \/ ~hdr.prefix
     \/ \A i \in 1..Len(cfg.secret) : hdr.mac # Sign(hdr.val, cfg.secret[i])

\* the identifier came from req.signedCookies or req.cookies
fallback(q) == q.src \in {"signedCookies", "cookies"}

gets(q) == SelectSeq(q.log, LAMBDA e : e.op = "get")

\* store.get reported an error other than ENOENT
getFailed(q) == \E e \in callbacks(q, {"get"}) : e.err \notin {"", "ENOENT"}

\* store.get reported ENOENT or no record
getMissed(q) ==
  \E e \in callbacks(q, {"get"}) : e.err = "ENOENT" \/ (e.err = "" /\ ~e.found)

\* store.get found a record, and the request still has the presented id
kept(q) ==
  /\ \E e \in callbacks(q, {"get"}) : e.err = "" /\ e.found
  /\ q.sessionID = q.cookieId

\* the handler set req.session = null
nulled(q) == q.session = Null /\ q.originalId # NoId

\* a session generated in this request is due a cookie: shouldSetCookie for a
\* changed identifier, and the secure cookie is not on a plain request
newCookieDue(q) ==
  /\ q.session # Null
  /\ cfg.saveUninitialized \/ hash(q.session) # q.originalHash
  /\ ~(cfg.cookie.secure /\ ~q.secure)

\* C5 as stated: an invalid cookie header never leads to store.get, the
\* session is fresh and the response sets a cookie for the new identifier
C5_Original ==
  \A r \in Reqs :
    invalid(req[r].hdr) =>
      /\ gets(req[r]) = <<>>
      /\ req[r].originalId \notin {NoId, req[r].hdr.val}
      /\ req[r].header =>
           req[r].setCookie = setcookie(req[r].originalId, cfg.secret[1])

\* C5: when the cookie header is invalid and neither req.signedCookies nor
\* req.cookies yields an identifier, store.get is never called and the session
\* is generated under a new identifier; the header step sets a cookie for that
\* identifier exactly when the session is attached, saveUninitialized is on
\* or the session is modified, and a secure cookie is not on a plain request
C5_InvalidCookieFresh ==
  /\ [](\A r \in Reqs :
          (invalid(req[r].hdr) /\ ~fallback(req[r])) =>
            /\ gets(req[r]) = <<>>
            /\ req[r].cookieId = NoId
            /\ req[r].originalId \notin {NoId, req[r].hdr.val}
            /\ req[r].setCookie \in
                 {NoCookie, setcookie(req[r].originalId, cfg.secret[1])})
  /\ [][\A r \in Reqs :
          (HeaderStep(r) /\ invalid(req[r].hdr) /\ ~fallback(req[r])) =>
            (req'[r].setCookie # NoCookie <=> newCookieDue(req[r]))]_vars

C5_Witness ==
  \E r \in Reqs :
    /\ invalid(req[r].hdr)
    /\ req[r].hdr.prefix
    /\ req[r].hdr.val \in Ids
    /\ ~fallback(req[r])
    /\ req[r].endCount = 1
    /\ req[r].setCookie = setcookie(req[r].originalId, cfg.secret[1])

\* C6: an error of store.get other than ENOENT goes to next(err); no session
\* is attached, none is generated and the handler does not run
C6_GetErrorFails ==
  \A r \in Reqs :
    \A e \in callbacks(req[r], {"get"}) :
      e.err \notin {"", "ENOENT"} =>
        /\ req[r].pc = "failed"
        /\ req[r].nextErr # <<>> /\ req[r].nextErr[1] = e.err
        /\ req[r].session = Null
        /\ req[r].originalId = NoId
        /\ req[r].sessionID = req[r].cookieId
        /\ req[r].setCookie = NoCookie
        /\ early(req[r]) = <<>>

C6_Witness ==
  \E r \in Reqs :
    /\ getFailed(req[r])
    /\ req[r].nextErr = <<"boom">>
    /\ req[r].endCount = 1

\* C7 as stated: after a missing record or ENOENT the request goes on with a
\* new empty session and the response sets a cookie for another identifier
C7_Original ==
  \A r \in Reqs :
    getMissed(req[r]) =>
      /\ req[r].pc # "failed"
      /\ req[r].originalId \notin {NoId, req[r].cookieId}
      /\ req[r].originalHash = 0
      /\ req[r].header =>
           /\ req[r].setCookie # NoCookie
           /\ req[r].setCookie.val # req[r].cookieId

\* C7: after a missing record or ENOENT the request is not failed and gets a
\* new empty session under a fresh identifier; the header step sets a cookie,
\* for the fresh identifier, exactly when the session is attached,
\* saveUninitialized is on or the session is modified, and a secure cookie is
\* not on a plain request
C7_MissGenerates ==
  /\ [](\A r \in Reqs :
          getMissed(req[r]) =>
            /\ req[r].pc # "failed"
            /\ req[r].nextErr = <<>> \/ completionErrors(req[r]) # {}
            /\ req[r].originalId \notin {NoId, req[r].cookieId}
            /\ req[r].originalHash = 0
            /\ req[r].setCookie \in
                 {NoCookie, setcookie(req[r].originalId, cfg.secret[1])})
  /\ [][\A r \in Reqs :
          (~getMissed(req[r]) /\ getMissed(req'[r])) =>
            req'[r].session = Session(nextId, 0, Cookie(cfg.cookie, now))]_vars
  /\ [][\A r \in Reqs :
          (HeaderStep(r) /\ getMissed(req[r])) =>
            (req'[r].setCookie # NoCookie <=> newCookieDue(req[r]))]_vars

C7_Witness ==
  \E r \in Reqs :
    /\ getMissed(req[r])
    /\ req[r].cookieId \in Ids
    /\ req[r].endCount = 1
    /\ req[r].setCookie = setcookie(req[r].originalId, cfg.secret[1])

C9_UnsetKeep ==
  /\ [](\A r \in Reqs :
          (~cfg.unsetDestroy /\ nulled(req[r])) =>
            /\ completionCalls(req[r]) = <<>>
            /\ req[r].pending = NoOp
            /\ kept(req[r]) =>
                 /\ sessions[req[r].cookieId] # Null
                 /\ hash(createSession(req[r].cookieId,
                                       sessions[req[r].cookieId]))
                      = req[r].originalHash)
  /\ [][\A r \in Reqs :
          (~cfg.unsetDestroy /\ nulled(req[r]) /\ served' = served) =>
            sessions' = sessions]_vars

C9_Witness ==
  \E r \in Reqs :
    /\ ~cfg.unsetDestroy /\ nulled(req[r]) /\ over(req[r])
    /\ kept(req[r])
    /\ req[r].originalHash # 0
    /\ sessions[req[r].cookieId] # Null

\* C10 as stated: a request that keeps the identifier of the session it loaded
\* gets a Set-Cookie if and only if rolling is on, or the cookie expires and
\* the session was modified
C10_Original ==
  \A r \in Reqs :
    (kept(req[r]) /\ over(req[r])) =>
      (req[r].setCookie # NoCookie
         <=> \/ cfg.rolling
             \/ /\ req[r].session # Null
                /\ req[r].session.cookie.expires # NullT
                /\ hash(req[r].session) # req[r].originalHash)

\* C10: for a request that keeps the identifier of the session it loaded, the
\* header step sets a cookie if and only if the session is attached, a secure
\* cookie is not on a plain request, and rolling is on or the cookie expires
\* and the session differs from what was loaded
C10_KeptIdCookie ==
  [][\A r \in Reqs :
       (HeaderStep(r) /\ kept(req[r])) =>
         (req'[r].setCookie # NoCookie
            <=> /\ req[r].session # Null
                /\ ~(req[r].session.cookie.secure /\ ~req[r].secure)
                /\ \/ cfg.rolling
                   \/ /\ req[r].session.cookie.expires # NullT
                      /\ hash(req[r].session) # req[r].originalHash)]_vars

C10_Witness ==
  \E r \in Reqs :
    /\ kept(req[r]) /\ over(req[r])
    /\ cfg.rolling
    /\ req[r].session # Null
    /\ hash(req[r].session) = req[r].originalHash
    /\ req[r].setCookie = setcookie(req[r].cookieId, cfg.secret[1])

\* ------------------------------------------ what completion sent the store
sets(q) == SelectSeq(q.log, LAMBDA e : e.op = "set")

touches(q) == SelectSeq(q.log, LAMBDA e : e.op = "touch")

\* the session is attached and its content differs from the original
modified(q) == q.session # Null /\ hash(q.session) # q.originalHash

\* the request presented no identifier, got a new session, and is over; the
\* handler called neither save nor reload
freshDone(q) ==
  /\ q.cookieId = NoId /\ q.originalId # NoId
  /\ handlerOps(q) = <<>>
  /\ over(q)

loadedDone(q) ==
  /\ kept(q) /\ q.session # Null
  /\ handlerOps(q) = <<>>
  /\ over(q)

\* C12: a loaded session the handler did not modify is saved at completion
\* exactly once with resave on and not at all with resave off; a modified one
\* is saved exactly once either way
C12_ResaveOnce ==
  \A r \in Reqs :
    loadedDone(req[r]) =>
      Len(sets(req[r])) = IF modified(req[r]) \/ cfg.resave THEN 1 ELSE 0

C12_Witness ==
  \E r \in Reqs :
    /\ loadedDone(req[r])
    /\ cfg.resave /\ ~modified(req[r])
    /\ sets(req[r]) = <<Ev("set", req[r].cookieId, "", FALSE)>>

\* calls of session.save the handler made
saves(q) == SelectSeq(q.log, LAMBDA e : e.op = "save")

\* the step in which the handler's first res.end runs
EndStep(r) == req[r].calls = 0 /\ req'[r].calls = 1

\* the handler saved the session itself, and the session and the identifier
\* are still in place
savedByHandler(q) ==
  /\ saves(q) # <<>>
  /\ q.session # Null /\ IsString(q.sessionID)

\* C13: after the handler's session.save(), res.end issues no store.set when
\* the content is what was saved, so the store is written only by that save;
\* it issues exactly one when the content was changed after the save; and
\* store.set is issued by no other step of the request
C13_SavedStaysSaved ==
  /\ [][\A r \in Reqs :
          (EndStep(r) /\ savedByHandler(req[r])) =>
            IF hash(req[r].session) = req[r].savedHash
            THEN /\ sets(req'[r]) = <<>>
                 /\ saves(req'[r]) = saves(req[r])
            ELSE Len(sets(req'[r])) = 1]_vars
  /\ [][\A r \in Reqs :
          (served' = served /\ sets(req'[r]) # sets(req[r])) => EndStep(r)]_vars

C13_Witness ==
  \E r \in Reqs :
    /\ savedByHandler(req[r]) /\ over(req[r])
    /\ ~cfg.saveUninitialized
    /\ req[r].cookieId = NoId
    /\ modified(req[r])
    /\ Len(saves(req[r])) = 1
    /\ Len(handlerOps(req[r])) = 2
    /\ sets(req[r]) = <<>>
    /\ sessions[req[r].originalId] # Null

\* C14: completion touches exactly once, and does not save, when no save is
\* required, the store has touch and the identifier is the presented one; a
\* session generated in this request is never touched
C14_TouchInsteadOfSave ==
  \A r \in Reqs :
    /\ Len(touches(req[r])) <= 1
    /\ touches(req[r]) # <<>> =>
         /\ sets(req[r]) = <<>>
         /\ cfg.storeImplementsTouch
         /\ kept(req[r])
         /\ touches(req[r])[1].id = req[r].cookieId
    /\ req[r].originalId # req[r].cookieId => touches(req[r]) = <<>>
    /\ (over(req[r]) /\ kept(req[r]) /\ req[r].session # Null
          /\ cfg.storeImplementsTouch /\ sets(req[r]) = <<>>)
         => Len(touches(req[r])) = 1

C14_Witness ==
  \E r \in Reqs :
    /\ over(req[r]) /\ kept(req[r])
    /\ ~modified(req[r])
    /\ sets(req[r]) = <<>>
    /\ touches(req[r]) = <<Ev("touch", req[r].cookieId, "", FALSE)>>

\* C15 as stated, for a request that loaded its session: on a store without
\* touch every completed request with a session and a string identifier
\* issues store.set
C15_Original ==
  \A r \in Reqs :
    (~cfg.storeImplementsTouch /\ loadedDone(req[r])
       /\ IsString(req[r].sessionID))
      => sets(req[r]) # <<>>

\* the handler replaced req.sessionID by something that is not a string
corrupted(q) == q.sessionID = BogusId

StartStep(r) == served' = served + 1 /\ req'[r] # req[r]

\* after this step the request is on its way without anything of the
\* middleware: no session attached, no identifier, no store operation, the
\* store and the identifier counter as before
skipped(r) ==
  /\ req'[r].pc = "passed"
  /\ req'[r].session = IF req'[r].given.preset THEN Foreign ELSE Null
  /\ req'[r].sessionID = NoId /\ req'[r].cookieId = NoId
  /\ req'[r].log = <<>> /\ req'[r].pending = NoOp
  /\ req'[r].setCookie = NoCookie
  /\ sessions' = sessions /\ nextId' = nextId

\* after this step the request has a session or is fetching one
attaching(r) ==
  \/ req'[r].pc = "handling" /\ req'[r].session \notin {Null, Foreign}
  \/ req'[r].pc = "fetching" /\ req'[r].pending.op = "get"

\* the pathname of the request does not start with the cookie path, each
\* taken as "/" when it is not given
offPath(q) ==
  LET p == IF q.given.path = <<>> THEN <<"/">> ELSE q.given.path
      c == IF cfg.cookie.path = <<>> THEN <<"/">> ELSE cfg.cookie.path
  IN  ~(Len(c) <= Len(p) /\ \A i \in 1..Len(c) : p[i] = c[i])

\* none of the early returns applies and a secret is at hand
admissible(q) ==
  /\ ~q.given.preset /\ ~offPath(q)
  /\ cfg.secret # <<>> \/ q.given.secret # NoSecret

\* C17: a request that enters while the store is disconnected goes on without
\* session, store operation, Set-Cookie or error, and stays so to its end; a
\* request that enters while the store is connected gets a session
C17_DisconnectedSkips ==
  /\ [][\A r \in Reqs :
          (StartStep(r) /\ ~storeReady) =>
            skipped(r) /\ req'[r].nextErr = <<>>]_vars
  /\ [][\A r \in Reqs :
          (StartStep(r) /\ storeReady /\ admissible(req'[r])) =>
            attaching(r)]_vars
  /\ [][\A r \in Reqs :
          (req[r].pc = "passed" /\ served' = served) =>
            /\ req'[r].pc = "passed"
            /\ req'[r].session = req[r].session
            /\ req'[r].log = <<>> /\ req'[r].setCookie = NoCookie
            /\ req'[r].nextErr = req[r].nextErr
            /\ sessions' = sessions]_vars

C17_Witness ==
  \E r \in Reqs :
    /\ req[r].pc = "passed" /\ req[r].src = "disconnected"
    /\ admissible(req[r])
    /\ req[r].endCount = 1 /\ req[r].header
    /\ req[r].setCookie = NoCookie
    /\ storeReady
    /\ served = 2

\* C18: a request that comes with req.session set, or whose pathname is not
\* under the cookie path, goes through next at once without error: no session
\* attached, res.end not intercepted, no store operation, no Set-Cookie
C18_EarlyReturns ==
  /\ [][\A r \in Reqs :
          (StartStep(r) /\ (req'[r].given.preset \/ offPath(req'[r]))) =>
            skipped(r) /\ req'[r].nextErr = <<>>]_vars
  /\ [](\A r \in Reqs :
          (req[r].pc # "new" /\ (req[r].given.preset \/ offPath(req[r]))) =>
            /\ req[r].pc = "passed"
            /\ req[r].session = IF req[r].given.preset THEN Foreign ELSE Null
            /\ ~req[r].ended /\ req[r].calls = 0 /\ ~req[r].touched
            /\ req[r].log = <<>>
            /\ req[r].setCookie = NoCookie
            /\ req[r].nextErr = <<>>)

C18_Witness ==
  \E r \in Reqs :
    /\ offPath(req[r]) /\ req[r].given.path = <<"/", "b", "/", "a">>
    /\ cfg.cookie.path = <<"/", "a">>
    /\ storeReady /\ cfg.secret # <<>>
    /\ req[r].endCount = 1 /\ req[r].header
    /\ req[r].setCookie = NoCookie
    /\ jar # NoCookie

\* --------------------------------------------------------------- secrets
\* the request in slot r enters past the early returns
entersPast(r) ==
  /\ StartStep(r) /\ storeReady
  /\ ~req'[r].given.preset /\ ~offPath(req'[r])

\* the error handed to next when no secret is at hand
SecretRequired == <<"secret option required for sessions">>

\* C19: without the secret option and without req.secret a request that is
\* not short-circuited is failed with 'secret option required for sessions'
\* and nothing else happens: no identifier, no session, no store operation;
\* with req.secret alone the request gets a session, a presented cookie is
\* verified with req.secret, and a cookie that is set is signed with it
C19_SecretRequired ==
  /\ [][\A r \in Reqs :
          (entersPast(r) /\ cfg.secret = <<>>
             /\ req'[r].given.secret = NoSecret) =>
            skipped(r) /\ req'[r].nextErr = SecretRequired]_vars
  /\ [][\A r \in Reqs :
          (entersPast(r) /\ cfg.secret = <<>>
             /\ req'[r].given.secret # NoSecret) =>
            /\ attaching(r)
            /\ req'[r].nextErr = <<>>
            /\ \A i \in KnownIds, k \in Secrets :
                 req'[r].hdr = Raw(TRUE, i, Sign(i, k)) =>
                   req'[r].cookieId = IF k = req'[r].given.secret THEN i
                                      ELSE NoId]_vars
  /\ [](\A r \in Reqs :
          (cfg.secret = <<>> /\ req[r].setCookie # NoCookie) =>
            /\ req[r].given.secret # NoSecret
            /\ req[r].setCookie =
                 Raw(TRUE, req[r].sessionID,
                     Sign(req[r].sessionID, req[r].given.secret)))

C19_Witness ==
  \E r \in Reqs :
    /\ cfg.secret = <<>>
    /\ req[r].pc = "passed" /\ req[r].src = "secret"
    /\ req[r].given.secret = NoSecret
    /\ req[r].nextErr = SecretRequired
    /\ req[r].endCount = 1
    /\ jar = Raw(TRUE, 1, Sign(1, "k1"))
    /\ sessions[1] # Null

\* the secret k is one of the configured secrets
configured(k) == \E j \in 1..Len(cfg.secret) : cfg.secret[j] = k

\* C20: a cookie that is set is signed with the first configured secret; a
\* presented cookie signed with any configured secret is accepted, its
\* identifier is looked up in the store, and one signed with a secret that
\* is not configured counts as no identifier: a new session is generated
C20_SecretRotation ==
  /\ [](\A r \in Reqs :
          (cfg.secret # <<>> /\ req[r].setCookie # NoCookie) =>
            req[r].setCookie =
              Raw(TRUE, req[r].sessionID,
                  Sign(req[r].sessionID, cfg.secret[1])))
  /\ [][\A r \in Reqs :
          (entersPast(r) /\ cfg.secret # <<>>) =>
            \A i \in KnownIds, k \in Secrets :
              req'[r].hdr = Raw(TRUE, i, Sign(i, k)) =>
                IF configured(k)
                THEN /\ req'[r].cookieId = i /\ req'[r].sessionID = i
                     /\ req'[r].pc = "fetching"
                     /\ req'[r].pending.op = "get" /\ req'[r].pending.id = i
                     /\ nextId' = nextId
                ELSE /\ req'[r].cookieId = NoId
                     /\ req'[r].pc = "handling" /\ req'[r].log = <<>>
                     /\ req'[r].sessionID = nextId
                     /\ req'[r].session \notin {Null, Foreign}
                     /\ req'[r].session.id = nextId
                     /\ nextId' = nextId + 1]_vars

C20_Witness ==
  \E r \in Reqs :
    /\ cfg.secret = <<"k2", "k1">>
    /\ req[r].hdr = Raw(TRUE, 1, Sign(1, "k1"))
    /\ req[r].cookieId = 1 /\ req[r].sessionID = 1
    /\ req[r].session \notin {Null, Foreign} /\ req[r].session.id = 1
    /\ over(req[r])
    /\ req[r].setCookie = Raw(TRUE, 1, Sign(1, "k2"))

\* ------------------------------------------------------- secure cookies
\* the session of the request has a secure cookie and req.secure is not true
insecure(q) == q.session # Null /\ q.session.cookie.secure /\ ~q.secure

\* C21: when the header is written for a request whose session cookie is
\* secure while req.secure is not true, no Set-Cookie is set, whatever
\* rolling and saveUninitialized are and whether or not the session was
\* modified; a Set-Cookie is set in the header step only and stays as it is
C21_SecureNotSent ==
  /\ [][\A r \in Reqs :
          (HeaderStep(r) /\ insecure(req[r])) =>
            req'[r].setCookie = NoCookie]_vars
  /\ [][\A r \in Reqs :
          (served' = served /\ ~HeaderStep(r)) =>
            req'[r].setCookie = req[r].setCookie]_vars
  /\ [](\A r \in Reqs : insecure(req[r]) => req[r].setCookie = NoCookie)

C21_Witness ==
  \E r \in Reqs :
    /\ insecure(req[r]) /\ over(req[r]) /\ req[r].header
    /\ cfg.rolling /\ cfg.saveUninitialized
    /\ kept(req[r]) /\ modified(req[r])
    /\ req[r].session.cookie.expires # NullT
    /\ req[r].setCookie = NoCookie
    /\ Len(sets(req[r])) = 1

\* ------------------------------------------------- cookies that throw
\* the cookie of the session cannot be serialized: its expiration is invalid
unserializable(q) == q.session # Null /\ q.session.cookie.expires = Invalid

\* the request is due a Set-Cookie when its header is written
cookieDue(q) ==
  /\ q.session # Null
  /\ IF q.cookieId # q.sessionID
     THEN cfg.saveUninitialized \/ modified(q)
     ELSE cfg.rolling \/ (q.session.cookie.expires # NullT /\ modified(q))

\* C22: when the header is written for a request that is due a cookie which
\* cannot be serialized, no Set-Cookie is set and one error is queued for
\* next, not handed over in the same step; a queued error is never dropped;
\* and such a request ends once, with the body the handler gave
C22_SetCookieErrorForwarded ==
  /\ [][\A r \in Reqs :
          (HeaderStep(r) /\ unserializable(req[r]) /\ cookieDue(req[r])) =>
            /\ req'[r].setCookie = NoCookie
            /\ req'[r].errq = req[r].errq + 1
            /\ req'[r].nextErr = req[r].nextErr]_vars
  /\ [][\A r \in Reqs :
          (served' = served /\ req'[r].errq < req[r].errq) =>
            Len(req'[r].nextErr) =
              Len(req[r].nextErr) + (req[r].errq - req'[r].errq)]_vars
  /\ [](\A r \in Reqs :
          (unserializable(req[r]) /\ req[r].endCount > 0) =>
            /\ req[r].setCookie = NoCookie
            /\ req[r].endCount = 1
            /\ req[r].body = early(req[r]) \o Bytes(req[r].endArg))

C22_Witness ==
  \E r \in Reqs :
    /\ unserializable(req[r]) /\ over(req[r])
    /\ cfg.saveUninitialized
    /\ req[r].header /\ req[r].setCookie = NoCookie
    /\ Len(req[r].nextErr) = 1
    /\ req[r].body = <<1>>
    /\ Len(sets(req[r])) = 1

\* ---------------------------------------------------- concurrent requests
\* the step in which the store performs the store.set of request r
setLanded(r) ==
  /\ req'[r].pending.op = "set" /\ req'[r].pending.applied
  /\ ~(req[r].pending.op = "set" /\ req[r].pending.applied)

\* the request loaded a record, wrote one back with store.set and is over
wroteBack(q) == kept(q) /\ over(q) /\ Len(sets(q)) = 1

\* C23: the store.set of a request replaces the entry of its identifier by
\* the snapshot of that request's session, whatever the entry held, and
\* leaves the other entries; no other step changes the content of an entry
\* or removes one; so when two requests that loaded the same identifier have
\* both written back, the entry is the snapshot of one of them, and no error
\* is reported to anyone
C23_LastWriterWins ==
  /\ [][\A r \in Reqs :
          setLanded(r) =>
            sessions' = [sessions EXCEPT ![req'[r].pending.id] =
                           Stringify(req'[r].pending.sess)]]_vars
  /\ [][(\A r \in Reqs : ~setLanded(r)) =>
          \A i \in DOMAIN sessions :
            sessions[i] # Null =>
              sessions'[i] # Null /\ sessions'[i].data = sessions[i].data]_vars
  /\ [](\A a, b \in Reqs :
          (a # b /\ wroteBack(req[a]) /\ wroteBack(req[b])
             /\ req[a].sessionID = req[b].sessionID) =>
            sessions[req[a].sessionID] \in
              {Stringify(req[a].session), Stringify(req[b].session)})
  /\ [](\A r \in Reqs : req[r].nextErr = <<>> /\ req[r].errq = 0)

C23_Witness ==
  \E a, b \in Reqs :
    /\ a # b /\ wroteBack(req[a]) /\ wroteBack(req[b])
    /\ req[a].sessionID = req[b].sessionID
    /\ req[a].originalHash = 0 /\ req[b].originalHash = 0
    /\ req[a].session.data = 1 /\ req[b].session.data = 2
    /\ sessions[req[a].sessionID] = Stringify(req[b].session)
    /\ req[a].nextErr = <<>> /\ req[b].nextErr = <<>>

\* ------------------------------------------------------------ regenerate
\* the calls of session.regenerate the handler made
regenCalls(q) == SelectSeq(q.log, LAMBDA e : e.op = "regenerate")

\* the step in which the handler of r calls session.regenerate
RegenStep(r) ==
  served' = served /\ Len(regenCalls(req'[r])) = Len(regenCalls(req[r])) + 1

\* the step in which the callback of that regenerate runs
RegenBack(r) ==
  /\ served' = served
  /\ req[r].pending.op = "regenerate" /\ req'[r].pending.op = "none"

\* the handler regenerated the session and was called back
regenerated(q) == regenCalls(q) # <<>> /\ q.pending.op # "regenerate"

\* C24 as stated: a request that regenerated its session, kept it and wrote
\* nothing before ends with a Set-Cookie for an identifier other than the
\* one presented
C24_Original ==
  \A r \in Reqs :
    (over(req[r]) /\ regenerated(req[r]) /\ req[r].session # Null
       /\ early(req[r]) = <<>>) =>
      /\ req[r].setCookie # NoCookie
      /\ req[r].setCookie.val # req[r].cookieId

\* C24: regenerate hands the current identifier to store.destroy and leaves
\* req as it is; the callback, with or without an error of destroy, attaches
\* an empty session under an identifier never used before and passes the
\* error on; when the header is written after that with the session still
\* attached, a Set-Cookie for the new identifier is set unless the cookie is
\* secure and the request is not
C24_Regenerate ==
  /\ [][\A r \in Reqs :
          RegenStep(r) =>
            /\ req'[r].pending.id = req[r].sessionID
            /\ sessions' = IF req'[r].pending.err = ""
                           THEN [sessions EXCEPT ![req[r].sessionID] = Null]
                           ELSE sessions
            /\ req'[r].sessionID = req[r].sessionID
            /\ req'[r].session = req[r].session]_vars
  /\ [][\A r \in Reqs :
          RegenBack(r) =>
            /\ req'[r].sessionID = nextId /\ nextId' = nextId + 1
            /\ req'[r].sessionID \notin {req[r].sessionID, req[r].cookieId}
            /\ sessions[nextId] = Null /\ sessions' = sessions
            /\ req'[r].session # Null
            /\ req'[r].session.id = nextId /\ req'[r].session.data = 0
            /\ req'[r].log[Len(req'[r].log)].op = "cb"
            /\ req'[r].log[Len(req'[r].log)].err = req[r].pending.err]_vars
  /\ [][\A r \in Reqs :
          (HeaderStep(r) /\ regenerated(req[r]) /\ req[r].session # Null) =>
            IF insecure(req[r])
            THEN req'[r].setCookie = NoCookie
            ELSE /\ req'[r].setCookie # NoCookie
                 /\ req'[r].setCookie.val = req[r].sessionID
                 /\ req'[r].setCookie.val # req[r].cookieId]_vars

C24_Witness ==
  \E r \in Reqs :
    /\ over(req[r]) /\ regenerated(req[r])
    /\ req[r].hdr # NoCookie /\ req[r].cookieId = 1
    /\ \E e \in callbacks(req[r], {"get"}) : e.err = "" /\ e.found
    /\ req[r].sessionID = 2 /\ req[r].session # Null
    /\ sessions[1] = Null
    /\ sessions[2] = Stringify(req[r].session)
    /\ req[r].setCookie # NoCookie /\ req[r].setCookie.val = 2

\* ------------------------------------------------------ the memory store
\* the entry is there and its cookie has an expiration at or before time t
expired(e, t) ==
  /\ e # Null /\ e.cookie # Null
  /\ e.cookie.expires # <<>> /\ e.cookie.expires[1] <= t

\* the entry is there and not expired at time t
live(e, t) == e # Null /\ ~expired(e, t)

\* the store without its entries expired at time t
purged(map, t) ==
  [i \in DOMAIN map |-> IF expired(map[i], t) THEN Null ELSE map[i]]

\* the step of a direct call of the store
DirectStep(op) == direct'.op = op /\ now' = now /\ req' = req

\* C25: get answers with the entry when it is there and has no expiration or
\* one after the current time, and otherwise reports none and deletes an
\* expired entry; all lists exactly the entries that are not expired and
\* deletes the expired ones; length counts what all lists
C25_NoExpiredReturned ==
  /\ [][DirectStep("get") =>
          /\ direct'.got = IF live(sessions[direct'.id], now)
                           THEN sessions[direct'.id] ELSE Null
          /\ sessions' = IF expired(sessions[direct'.id], now)
                         THEN [sessions EXCEPT ![direct'.id] = Null]
                         ELSE sessions]_vars
  /\ [][DirectStep("all") =>
          /\ direct'.listed = purged(sessions, now)
          /\ sessions' = purged(sessions, now)]_vars
  /\ [][DirectStep("length") =>
          /\ direct'.count =
               Cardinality({i \in DOMAIN sessions : live(sessions[i], now)})
          /\ sessions' = purged(sessions, now)]_vars

C25_Witness ==
  /\ direct.op = "all" /\ now = MaxTime
  /\ direct.listed[1] = Null /\ sessions[1] = Null
  /\ direct.listed[2] # Null /\ direct.listed[2] = sessions[2]
  /\ sessions[2].cookie # Null
  /\ sessions[2].cookie.expires = <<MaxTime + 1>>

\* the cookie of an object as JSON holds it; none for an object without one
cookieOf(o) ==
  IF o.cookie = Null THEN Null
  ELSE [expires |-> IF o.cookie.expires = NullT THEN <<>>
                    ELSE <<o.cookie.expires>>,
        originalMaxAge |-> o.cookie.originalMaxAge,
        secure |-> o.cookie.secure]

\* C26: touch on an entry that is there and not expired puts the cookie of
\* the object handed over in place of the entry's cookie and leaves its
\* content and every other entry; on an identifier that is absent or expired
\* it leaves no entry
C26_TouchOnlyCookie ==
  [][DirectStep("touch") =>
       sessions' =
         [sessions EXCEPT ![direct'.id] =
            IF live(sessions[direct'.id], now)
            THEN [data |-> sessions[direct'.id].data,
                  cookie |-> cookieOf(direct'.obj)]
            ELSE Null]]_vars

C26_Witness ==
  /\ direct.op = "touch" /\ direct.id = 1
  /\ sessions[1] # Null /\ sessions[2] # Null
  /\ sessions[1].data = 1 /\ direct.obj.data = 0
  /\ direct.obj.cookie # Null
  /\ sessions[1].cookie = cookieOf(direct.obj)
  /\ sessions[1].cookie.expires = <<MaxTime + 1>>
  /\ sessions[2].cookie # sessions[1].cookie
  /\ now = MaxTime

\* C27: set puts the snapshot of the object under its identifier in place of
\* whatever was there; a get of an entry that is there and not expired
\* answers with exactly what is stored; destroy leaves no entry, whether or
\* not there was one; a change of the object by the caller and the passing of
\* time leave the store as it is; get, all and length change only entries
\* that are expired; and every call on one identifier leaves the entries of
\* the others
C27_StoreIsMap ==
  /\ [][DirectStep("set") =>
          sessions' = [sessions EXCEPT ![direct'.id] =
                         [data |-> direct'.obj.data,
                          cookie |-> cookieOf(direct'.obj)]]]_vars
  /\ [][(DirectStep("get") /\ live(sessions[direct'.id], now)) =>
          direct'.got = sessions[direct'.id] /\ sessions' = sessions]_vars
  /\ [][DirectStep("destroy") =>
          sessions' = [sessions EXCEPT ![direct'.id] = Null]]_vars
  /\ [][(direct'.op = "mutate" \/ now' # now) => sessions' = sessions]_vars
  /\ [][\A i \in DOMAIN sessions :
          sessions'[i] # sessions[i] =>
            \/ direct'.op \in {"set", "touch", "destroy"} /\ direct'.id = i
            \/ expired(sessions[i], now) /\ sessions'[i] = Null]_vars

C27_Witness ==
  /\ direct.op = "mutate" /\ direct.id = 1
  /\ sessions[1] # Null /\ sessions[2] # Null
  /\ sessions[1].data = 0 /\ direct.obj.data = 1
  /\ sessions[1].cookie = cookieOf(direct.obj)
  /\ sessions[2].data = 1
  /\ now = MaxTime /\ live(sessions[1], now)

\* ----------------------------------------------------- records that throw
\* the step in which the callback of the store.get of r runs
GetBack(r) ==
  /\ served' = served
  /\ req[r].pending.op = "get" /\ req'[r].pending.op = "none"

\* C28: when store.get answers with a record without a cookie property, the
\* request is failed with one error through next and has no session, no
\* other identifier and no Set-Cookie, and the handler does not get to run;
\* a record with a cookie becomes the session of the request
C28_InflateError ==
  /\ [][\A r \in Reqs :
          (GetBack(r) /\ req[r].pending.err = ""
             /\ req[r].pending.result # Null) =>
            IF req[r].pending.result.cookie = Null
            THEN /\ req'[r].pc = "failed"
                 /\ req'[r].session = Null
                 /\ Len(req'[r].nextErr) = 1
                 /\ req'[r].sessionID = req[r].sessionID
                 /\ nextId' = nextId /\ sessions' = sessions
            ELSE /\ req'[r].pc = "handling"
                 /\ req'[r].nextErr = <<>>
                 /\ req'[r].session # Null
                 /\ req'[r].session.data = req[r].pending.result.data]_vars
  /\ [](\A r \in Reqs :
          req[r].pc = "failed" =>
            /\ req[r].session = Null
            /\ req[r].originalId = NoId
            /\ req[r].setCookie = NoCookie
            /\ Len(req[r].nextErr) = 1)

C28_Witness ==
  \E r \in Reqs :
    /\ req[r].pc = "failed" /\ over(req[r])
    /\ \E e \in callbacks(req[r], {"get"}) : e.err = "" /\ e.found
    /\ req[r].session = Null
    /\ req[r].nextErr = <<"TypeError">>
    /\ sessions[req[r].cookieId] # Null
    /\ sessions[req[r].cookieId].cookie = Null
    /\ sessions[req[r].cookieId].data = 1

\* ----------------------------------------------------------- stale cookies
\* C29: a request that is over and set a cookie wrote or touched its session
\* at completion under the identifier the cookie names, and neither
\* destroyed that identifier nor regenerated it away
C29_Original ==
  \A r \in Reqs :
    (over(req[r]) /\ req[r].setCookie # NoCookie) =>
      /\ \E k \in 1..Len(completionCalls(req[r])) :
           /\ completionCalls(req[r])[k].op \in {"set", "touch"}
           /\ completionCalls(req[r])[k].id = req[r].setCookie.val
      /\ \A k \in 1..Len(req[r].log) :
           req[r].log[k].op \in {"destroy", "regenerate"} =>
             req[r].log[k].id # req[r].setCookie.val

\* ------------------------------------------------------- originalMaxAge
\* the session of r is the one a record of the store was inflated into
inflated(q) ==
  /\ q.pc # "new" /\ q.session # Null
  /\ \E e \in callbacks(q, {"get"}) : e.err = "" /\ e.found

\* C30 as stated: the session of every request has the configured max-age
\* as its cookie.originalMaxAge
C30_Original ==
  \A r \in Reqs :
    (req[r].pc # "new" /\ req[r].session # Null) =>
      req[r].session.cookie.originalMaxAge = cfg.cookie.maxAge

\* C30: the session a record is inflated into has the originalMaxAge of the
\* record, whatever the time; a step whose cookie setters read the clock
\* twice in the same millisecond gives a new session the configured max-age
\* and leaves the originalMaxAge of an attached session as it is; and
\* originalMaxAge is never above the configured max-age, and null exactly
\* when none is configured
C30_AsPersisted ==
  /\ [][\A r \in Reqs :
          (GetBack(r) /\ req[r].pending.err = ""
             /\ req[r].pending.result # Null) =>
            req'[r].session.cookie.originalMaxAge =
              req[r].pending.result.cookie.originalMaxAge]_vars
  /\ [][\A r \in Reqs :
          (latency = 0 /\ req'[r].pc # "new" /\ req'[r].session # Null) =>
            IF req[r].session = Null \/ served' # served
            THEN inflated(req'[r]) \/
                 req'[r].session.cookie.originalMaxAge = cfg.cookie.maxAge
            ELSE req'[r].session.cookie.originalMaxAge =
                   req[r].session.cookie.originalMaxAge]_vars
  /\ [](\A r \in Reqs :
          (req[r].pc # "new" /\ req[r].session # Null) =>
            IF cfg.cookie.maxAge = NullT
            THEN req[r].session.cookie.originalMaxAge = NullT
            ELSE req[r].session.cookie.originalMaxAge
                   \in 0..cfg.cookie.maxAge)

C30_Witness ==
  \E r \in Reqs :
    /\ inflated(req[r]) /\ over(req[r])
    /\ now > 0
    /\ cfg.cookie.maxAge # NullT
    /\ req[r].session.cookie.originalMaxAge < cfg.cookie.maxAge
    /\ sessions[req[r].sessionID] # Null
    /\ sessions[req[r].sessionID].cookie.originalMaxAge
         = req[r].session.cookie.originalMaxAge

\* ------------------------------------------- destroy at completion
\* C31: store.destroy is issued at completion only under the unset policy
\* 'destroy' by a request that had its session attached and nulled; a
\* request that never had a session issues none
C31_Original ==
  \A r \in Reqs :
    \A k \in 1..Len(completionCalls(req[r])) :
      completionCalls(req[r])[k].op = "destroy" =>
        /\ cfg.unsetDestroy
        /\ req[r].pc = "handling"
        /\ req[r].session = Null

\* ------------------------------------------------ the save decision
\* the session of q is new to the store in this request: saveUninitialized
\* is off, nothing was saved yet, and the identifier is not the presented one
uninitialized(q) ==
  /\ ~cfg.saveUninitialized /\ q.savedHash = NoHash
  /\ q.cookieId # q.sessionID

\* the identifier or the content is not what the request started with
changed(q) ==
  q.originalId # q.session.id \/ q.originalHash # hash(q.session)

\* the identifier or the content is not what was last saved
unsaved(q) ==
  q.originalId # q.session.id \/ q.savedHash # hash(q.session)

\* the first res.end of r runs with a session attached under a string
\* identifier
Deciding(r) ==
  /\ EndStep(r)
  /\ req[r].session # Null /\ IsString(req[r].sessionID)

\* this step issues a store.set for r
SetIssued(r) == Len(sets(req'[r])) = Len(sets(req[r])) + 1

\* C32 as stated: the save is issued exactly when the session is
\* uninitialized and changed, or unsaved
C32_Original ==
  [][\A r \in Reqs :
       Deciding(r) =>
         (SetIssued(r) <=>
            ((uninitialized(req[r]) /\ changed(req[r])) \/ unsaved(req[r])))
    ]_vars

\* C32: at completion with a string identifier a save is issued, for an
\* uninitialized session, exactly when it is changed, and for any other
\* session exactly when it is unsaved
C32_SaveDecision ==
  [][\A r \in Reqs :
       Deciding(r) =>
         (SetIssued(r) <=>
            IF uninitialized(req[r]) THEN changed(req[r])
            ELSE unsaved(req[r]))]_vars

C32_Witness ==
  \E r \in Reqs :
    /\ over(req[r]) /\ req[r].pc = "handling"
    /\ req[r].session # Null /\ IsString(req[r].sessionID)
    /\ uninitialized(req[r]) /\ ~changed(req[r]) /\ unsaved(req[r])
    /\ sets(req[r]) = <<>>
    /\ sessions[req[r].sessionID] = Null

\* -------------------------------------------------------- touching once
\* C33: a request whose res.end ran with a session attached has called
\* session.touch exactly once, no request calls it more than once, and it is
\* called only in the step that writes the header or in the first res.end
C33_TouchedOnce ==
  /\ [](\A r \in Reqs :
          /\ req[r].touchCalls <= 1
          /\ (req[r].ended /\ req[r].session # Null) =>
               req[r].touchCalls = 1)
  /\ [][\A r \in Reqs :
          (served' = served /\ req'[r].touchCalls # req[r].touchCalls) =>
            HeaderStep(r) \/ EndStep(r)]_vars

C33_Witness ==
  \E r \in Reqs :
    /\ over(req[r]) /\ req[r].session # Null
    /\ early(req[r]) # <<>>
    /\ req[r].setCookie # NoCookie
    /\ req[r].touchCalls = 1

\* ----------------------------------------------------- saves that fail
\* the callbacks of the handler's session.save calls, in order
saveCallbacks(q) ==
  SelectSeq([i \in 1..Len(q.log) |->
               IF i > 1 /\ q.log[i].op = "cb" /\ q.log[i - 1].op = "save"
               THEN q.log[i] ELSE Ev("none", NoId, "", FALSE)],
            LAMBDA e : e.op = "cb")

\* the last session.save of the handler was called back with an error
lastSaveFailed(q) ==
  /\ saveCallbacks(q) # <<>>
  /\ saveCallbacks(q)[Len(saveCallbacks(q))].err # ""

\* C34: the first res.end of a request whose last session.save was called
\* back with an error, run with the session attached, issues a store.set
C34_Original ==
  [][\A r \in Reqs :
       (Deciding(r) /\ lastSaveFailed(req[r])) => SetIssued(r)]_vars

\* ---------------------------------------------------- fallback sources
\* identifiers for which a client holds a signature of the coordinator
signedIds == {c.val : c \in Received}

\* C35: an identifier taken from req.signedCookies or req.cookies is used as
\* the session identifier and looked up in the store only if its signature
\* verifies under the configured secrets, that is, only if it is an
\* identifier the coordinator signed
C35_Original ==
  [][\A r \in Reqs :
       (StartStep(r) /\ req'[r].src \in {"signedCookies", "cookies"}) =>
         req'[r].cookieId \in signedIds]_vars

\* ------------------------------------------------ operations in flight
\* the store operations the request issued, by the middleware or through
\* the methods of its session
storeCalls(q) == SelectSeq(q.log, LAMBDA e : e.op # "cb")

\* this step issues a store operation for r
Issuing(r) ==
  /\ served' = served
  /\ Len(storeCalls(req'[r])) = Len(storeCalls(req[r])) + 1

\* C36: a request issues a store operation only when no operation of its own
\* for the same identifier is waiting for its callback
C36_Original ==
  [][\A r \in Reqs :
       Issuing(r) =>
         \/ req[r].pending.op = "none"
         \/ req[r].pending.id
              # storeCalls(req'[r])[Len(storeCalls(req'[r]))].id]_vars

\* ------------------------------------------------------------ completion
\* a completion-time store operation of q is waiting for its callback
awaiting(q) == q.pending.op \in CompletionOps

\* C37: on a store that calls every callback, a request whose res.end was
\* called gets the underlying end; the underlying end runs at most once; and
\* it does not run while the completion-time callback is outstanding
C37_EndsOnce ==
  /\ \A r \in Reqs : req[r].ended ~> (req[r].endCount = 1)
  /\ [](\A r \in Reqs :
          /\ req[r].endCount <= 1
          /\ awaiting(req[r]) => (req[r].ended /\ req[r].endCount = 0))

C37_Witness ==
  \E r \in Reqs :
    /\ req[r].ended /\ req[r].endCount = 1
    /\ \E e \in callbacks(req[r], CompletionOps) : TRUE
    /\ req[r].calls = MaxCalls

\* ---------------------------------------- stored, but never announced
\* C38: with saveUninitialized on, a request that got a new session whose
\* cookie is secure, on a connection that is not, and whose handler left the
\* saving to res.end, is over with no Set-Cookie and with exactly one
\* store.set, and the store holds the session under an identifier no client
\* has received
C38_StoredWithoutCookie ==
  \A r \in Reqs :
    (cfg.saveUninitialized /\ freshDone(req[r]) /\ insecure(req[r])) =>
      /\ req[r].setCookie = NoCookie
      /\ sets(req[r]) = <<Ev("set", req[r].sessionID, "", FALSE)>>
      /\ sessions[req[r].sessionID] # Null
      /\ sessions[req[r].sessionID].data = req[r].session.data
      /\ req[r].sessionID \notin signedIds

C38_Witness ==
  \E r \in Reqs :
    /\ cfg.saveUninitialized /\ freshDone(req[r]) /\ insecure(req[r])
    /\ req[r].header /\ req[r].setCookie = NoCookie
    /\ ~modified(req[r])
    /\ sessions[req[r].sessionID] = Stringify(req[r].session)
    /\ Received = {}

\* ------------------------------------------ readiness after the entry
\* this step issues a completion-time store operation for r
CompletionIssued(r) ==
  Len(completionCalls(req'[r])) = Len(completionCalls(req[r])) + 1

touchLanded(r) ==
  /\ req'[r].pending.op = "touch" /\ req'[r].pending.applied
  /\ ~(req[r].pending.op = "touch" /\ req[r].pending.applied)

\* the request loaded a record, left it unmodified, touched it and is over
touchedOnly(q) ==
  /\ kept(q) /\ over(q) /\ ~modified(q)
  /\ sets(q) = <<>> /\ Len(touches(q)) = 1

\* the request loaded a record, modified it, wrote it back and is over
savedChange(q) == wroteBack(q) /\ modified(q)

\* C40: with resave off, the store.touch of a request changes the content of
\* no entry and removes none: where the entry of its identifier is there it
\* replaces the cookie by the cookie of the request's session; so when, of
\* the two requests that followed the one that created the session, one
\* only touched and the other saved a change, the entry holds the content of
\* the one that saved, with the cookie of either
C40_TouchKeepsContent ==
  /\ [][\A r \in Reqs :
          touchLanded(r) =>
            sessions' =
              [i \in DOMAIN sessions |->
                 IF i = req'[r].pending.id /\ sessions[i] # Null
                 THEN [sessions[i] EXCEPT !.cookie =
                         CookieToJSON(req'[r].pending.sess.cookie)]
                 ELSE sessions[i]]]_vars
  /\ [](\A a, b \in Reqs :
          (~cfg.resave /\ served <= 3
             /\ touchedOnly(req[a]) /\ savedChange(req[b])
             /\ req[a].sessionID = req[b].sessionID) =>
            /\ sessions[req[b].sessionID] # Null
            /\ sessions[req[b].sessionID].data = req[b].session.data
            /\ sessions[req[b].sessionID].cookie \in
                 {CookieToJSON(req[a].session.cookie),
                  CookieToJSON(req[b].session.cookie)})

C40_Witness ==
  \E a, b \in Reqs :
    /\ ~cfg.resave /\ served = 3
    /\ touchedOnly(req[a]) /\ savedChange(req[b])
    /\ req[a].sessionID = req[b].sessionID
    /\ req[a].session.data = 0 /\ req[b].originalHash = 0
    /\ req[b].session.data = 1
    /\ sessions[req[a].sessionID].data = 1

====
